---- MODULE Spec2Model ----
(***************************************************************************)
(* A model of the two applications of the repository:                      *)
(*   - the ledger / invoicing application (src/app): accounts seeded or    *)
(*     imported, journals, entries, entry lines, sequential numbering,     *)
(*     invoices and the four reports;                                      *)
(*   - the cabinet application (src/cabinet_compta): cabinets, their       *)
(*     societes, the associates of a societe and the cessions (share       *)
(*     transfers) applied to them.                                         *)
(* Amounts are integers counting thousandths: a form may give an amount    *)
(* more decimals than the two a Numeric(14, 2) column gives back.  Dates   *)
(* are integers yyyymmdd, so that the calendar order is the integer order  *)
(* and the year is date \div 10000.                                        *)
(***************************************************************************)
EXTENDS Integers, Sequences, FiniteSets, TLC

VARIABLES
    accounts,    \* accounts table in id order: <<[code, class_code]>>
    journals,    \* journals table: id -> [code, prefix, next_number]
    entries,     \* entries table in id order, each entry with its lines
    numbering,   \* numbering table: scope -> [prefix, next_number]
    invoices,    \* invoices table in id order
    today,       \* date.today()
    last,        \* outcome of the last request or call, with the page rendered
    handed,      \* history: scope -> numbers next_sequence has returned
    kept,        \* history: scope -> numbers returned to a committed increment
    calls,       \* history: the next_sequence calls made directly, in order
    req,         \* concurrent requests: client -> its session's state
    form,        \* the entry form of a request received and not yet served
    cabinets,    \* cabinets table: id -> [name]
    societes,    \* societes table: id -> [name, cabinet_id]
    associates,  \* associates table: id -> [societe_id, name, parts_count]
    cessions     \* cessions table: id -> [societe_id, cedant, cessionnaire, parts_count]

vars == <<accounts, journals, entries, numbering, invoices, today, last, handed, kept,
          calls, req, form, cabinets, societes, associates, cessions>>

ledgerVars == <<accounts, journals, entries, numbering, invoices, today, handed,
                kept>>
cabinetVars == <<cabinets, societes, associates, cessions>>

----------------------------------------------------------------------------
(* Bounds of the model.                                                    *)

MaxEntries == 2
MaxInvoices == 2
MaxLines == 2
MaxCalls == 10
MaxCessions == 2
MaxSocietes == 2
MaxCabinets == 1
MaxAssociates == 2

----------------------------------------------------------------------------
(* Form values and their parsing.                                          *)

\* datetime.strptime(value, "%Y-%m-%d").date(): the strings the model submits
\* and the dates they parse to; any other string raises ValueError.
DateTable ==
    ("2024-06-30" :> 20240630) @@ ("2024-12-31" :> 20241231) @@
    ("2025-01-01" :> 20250101)

Dates == {DateTable[s] : s \in DOMAIN DateTable}

isoformat(d) == CHOOSE s \in DOMAIN DateTable : DateTable[s] = d

_parse_date(value) ==
    IF value \in DOMAIN DateTable
    THEN [ok |-> TRUE, date |-> DateTable[value]]
    ELSE [ok |-> FALSE, date |-> 0]

year(d) == d \div 10000

\* Decimal(s.replace(",", ".")) if s else Decimal("0"), in thousandths: the
\* conversion keeps every decimal of the string.  A string outside the table
\* is not a number and raises InvalidOperation.  The amounts of the table
\* are even numbers of thousandths, so that no sum and no difference of them
\* lies halfway between two hundredths, where the result of a rounding is
\* that of the floats involved.
AmountTable ==
    ("" :> 0) @@ ("0" :> 0) @@ ("0.01" :> 10) @@ ("0,01" :> 10) @@
    ("0.02" :> 20) @@ ("0,02" :> 20) @@ ("0.03" :> 30) @@
    ("0.004" :> 4) @@ ("0.006" :> 6)

\* round(float(a) - float(b), 2) for amounts a, b >= 0: the nearest
\* hundredth, in thousandths; round(-x, 2) = -round(x, 2).  Neither an
\* amount nor the half between two hundredths is exact as a float, so a
\* difference an odd number of half hundredths wide goes to the side the
\* difference of the two floats lies on, which no rule on a - b gives: 0.020
\* - 0.005 lies below 0.015 and 0.017 - 0.002 above.  `above` gives, for
\* each larger amount from 0.005 to 0.060, the smaller amounts that leave
\* the difference above the half; the others leave it below.
round_2(a, b) ==
    LET hi == IF a >= b THEN a ELSE b
        lo == IF a >= b THEN b ELSE a
        q == (hi - lo) \div 10
        r == (hi - lo) % 10
        above ==
            (5 :> {0}) @@ (6 :> {1}) @@ (7 :> {2}) @@ (8 :> {3}) @@
            (9 :> {}) @@ (10 :> {5}) @@ (11 :> {}) @@ (12 :> {7}) @@
            (13 :> {}) @@ (14 :> {9}) @@ (15 :> {}) @@ (16 :> {11}) @@
            (17 :> {2, 12}) @@ (18 :> {}) @@ (19 :> {}) @@ (20 :> {15}) @@
            (21 :> {6, 16}) @@ (22 :> {}) @@ (23 :> {18}) @@
            (24 :> {9, 19}) @@ (25 :> {0, 10, 20}) @@ (26 :> {}) @@
            (27 :> {2, 22}) @@ (28 :> {3, 13, 23}) @@ (29 :> {4, 14, 24}) @@
            (30 :> {}) @@ (31 :> {6, 26}) @@ (32 :> {7, 27}) @@
            (33 :> {8, 18, 28}) @@ (34 :> {9, 19, 29}) @@
            (35 :> {0, 10, 20, 30}) @@ (36 :> {}) @@ (37 :> {}) @@
            (38 :> {13}) @@ (39 :> {4, 14}) @@ (40 :> {5, 15}) @@
            (41 :> {6, 16, 26, 36}) @@ (42 :> {7, 17, 27, 37}) @@
            (43 :> {}) @@ (44 :> {}) @@ (45 :> {}) @@ (46 :> {11}) @@
            (47 :> {12, 22}) @@ (48 :> {13, 23, 43}) @@
            (49 :> {14, 24, 44}) @@ (50 :> {5, 15, 25, 45}) @@ (51 :> {}) @@
            (52 :> {}) @@ (53 :> {18}) @@ (54 :> {19}) @@
            (55 :> {0, 20, 30}) @@ (56 :> {1, 21, 31, 51}) @@
            (57 :> {2, 22, 32, 52}) @@ (58 :> {3, 13, 23, 33, 43, 53}) @@
            (59 :> {}) @@ (60 :> {5})
        n == CASE r < 5 -> q
               [] r > 5 -> q + 1
               [] r = 5 /\ hi \in DOMAIN above /\ lo \in above[hi] -> q + 1
               [] r = 5 /\ hi \in DOMAIN above /\ lo \notin above[hi] -> q
    IN  IF a >= b THEN 10 * n ELSE 0 - 10 * n

\* What a Numeric(14, 2) column gives back for the amount x >= 0 a row
\* holds: SQLite keeps the float it was handed, and the value read is
\* "%.2f" of that float.  An amount halfway between two hundredths reads as
\* the hundredth on the side of its float: above for 0.005, 0.025, 0.035 and
\* 0.055, below for 0.015 and 0.045.
Numeric_14_2(x) ==
    LET q == x \div 10
        r == x % 10
    IN  10 * (CASE r < 5 -> q
                [] r > 5 -> q + 1
                [] r = 5 /\ x \in {5, 25, 35, 55} -> q + 1
                [] r = 5 /\ x \in {15, 45} -> q)

AmountOK(s) == s \in DOMAIN AmountTable

ParseAmount(s) == AmountTable[s]

\* int(acc_id): the account ids the model submits; another string raises.
\* The conversion does not look the account up.
IntTable ==
    ("1" :> 1) @@ ("2" :> 2) @@ ("3" :> 3) @@ ("4" :> 4) @@ ("5" :> 5) @@
    ("6" :> 6) @@ ("7" :> 7) @@ ("8" :> 8) @@ ("9" :> 9)

IntOK(s) == s \in DOMAIN IntTable

ParseInt(s) == IntTable[s]

\* f"{n:04d}" for n >= 0: at least four digits, zero-padded on the left.
Format04d(n) ==
    IF n < 10 THEN "000" \o ToString(n)
    ELSE IF n < 100 THEN "00" \o ToString(n)
    ELSE IF n < 1000 THEN "0" \o ToString(n)
    ELSE ToString(n)

----------------------------------------------------------------------------
(* Tables the model starts from.                                           *)

\* A chart of accounts as a file gives it, row after row: one account per
\* class the reports distinguish.
ChartRows ==
    <<[code |-> "5141", class_code |-> "5"],
      [code |-> "4411", class_code |-> "4"],
      [code |-> "6111", class_code |-> "6"],
      [code |-> "7111", class_code |-> "7"],
      [code |-> "8600", class_code |-> "8"],
      [code |-> "2340", class_code |-> "2"],
      [code |-> "3421", class_code |-> "3"],
      [code |-> "1111", class_code |-> "1"]>>

\* The same chart with one more account at its end.
LongerChartRows == Append(ChartRows, [code |-> "4455", class_code |-> "4"])

\* The ids of the accounts stored: an account's id is its place in the table
\* (no request deletes an account).
AccountIds == DOMAIN accounts

\* flask init-defaults: the four journals, in the order they are inserted,
\* each with its counter at 1.
DefaultJournals ==
    (1 :> [code |-> "ACH", prefix |-> "ACH-", next_number |-> 1]) @@
    (2 :> [code |-> "VTE", prefix |-> "VTE-", next_number |-> 1]) @@
    (3 :> [code |-> "TRS", prefix |-> "TRS-", next_number |-> 1]) @@
    (4 :> [code |-> "OD", prefix |-> "OD-", next_number |-> 1])

JournalIds == DOMAIN DefaultJournals

NumberingScopes == {"invoice", "quote"}

Scopes == {DefaultJournals[j].code : j \in JournalIds} \cup NumberingScopes

\* An absent form field or argument is <<>>, a present one <<value>>.
Absent == <<>>

Given(v) == <<v>>

OrDefault(opt, default) == IF opt = Absent THEN default ELSE opt[1]

----------------------------------------------------------------------------
(* app/models.py                                                           *)

\* Variant: the year is that of today, whatever date is passed.
Journal_next_sequence_this_year(row, when, now) ==
    [seq |-> row.prefix \o ToString(year(now)) \o "-" \o Format04d(row.next_number),
     row |-> [row EXCEPT !.next_number = @ + 1]]

\* (mutant) the reference is formatted and the counter is left as it was.
Journal_next_sequence_stale(row, when, now) ==
    LET w == OrDefault(when, now)
    IN  [seq |-> row.prefix \o ToString(year(w)) \o "-" \o Format04d(row.next_number),
         row |-> row]

\* Journal.next_sequence(when): the reference it returns and the row after
\* the call (self.next_number += 1).
Journal_next_sequence(row, when, now) ==
    LET w == OrDefault(when, now)
    IN  [seq |-> row.prefix \o ToString(year(w)) \o "-" \o Format04d(row.next_number),
         row |-> [row EXCEPT !.next_number = @ + 1]]

\* (mutant) the counter is advanced by two.
Numbering_next_sequence_skip(row, when, now) ==
    LET w == OrDefault(when, now)
    IN  [seq |-> row.prefix \o ToString(year(w)) \o "-" \o Format04d(row.next_number),
         row |-> [row EXCEPT !.next_number = @ + 2]]

\* Numbering.next_sequence(when): the same code, in its own class.
Numbering_next_sequence(row, when, now) ==
    LET w == OrDefault(when, now)
    IN  [seq |-> row.prefix \o ToString(year(w)) \o "-" \o Format04d(row.next_number),
         row |-> [row EXCEPT !.next_number = @ + 1]]

RECURSIVE SumDebit(_)
SumDebit(lines) ==
    IF lines = <<>> THEN 0 ELSE Head(lines).debit + SumDebit(Tail(lines))

RECURSIVE SumCredit(_)
SumCredit(lines) ==
    IF lines = <<>> THEN 0 ELSE Head(lines).credit + SumCredit(Tail(lines))

\* Entry.total_debit / Entry.total_credit over the entry's lines.
total_debit(lines) == SumDebit(lines)

total_credit(lines) == SumCredit(lines)

\* (mutant) the difference is rounded to one decimal instead of two.
is_balanced_one_decimal(lines) ==
    LET diff == total_debit(lines) - total_credit(lines)
    IN  diff > -50 /\ diff < 50

\* Entry.is_balanced: round(total_debit - total_credit, 2) == 0.0, on the
\* amounts the lines carry when it is called: in entry_create, the Decimals
\* converted from the form, with all their decimals.
is_balanced(lines) == round_2(total_debit(lines), total_credit(lines)) = 0

----------------------------------------------------------------------------
(* app/routes.py: entry_create, entry_validate                             *)

\* Variant: a draft whose debit and credit are both zero is kept as a line.
RECURSIVE BuildLines_keep_zero(_)
BuildLines_keep_zero(drafts) ==
    IF drafts = <<>> THEN [raised |-> FALSE, lines |-> <<>>]
    ELSE LET d == Head(drafts)
             rest == BuildLines_keep_zero(Tail(drafts))
         IN  IF d.account = "" THEN rest
             ELSE IF ~AmountOK(d.debit) \/ ~AmountOK(d.credit)
                  THEN [raised |-> TRUE, lines |-> <<>>]
             ELSE IF ~IntOK(d.account) THEN [raised |-> TRUE, lines |-> <<>>]
             ELSE IF rest.raised THEN rest
             ELSE [raised |-> FALSE,
                   lines |-> <<[account_id |-> ParseInt(d.account),
                                debit |-> ParseAmount(d.debit),
                                credit |-> ParseAmount(d.credit)]>> \o rest.lines]

\* The loop over the submitted line drafts (routes.py 186-199).  A draft is
\* [account, debit, credit], the three form strings.  The result is the
\* EntryLines added to the entry, or raised = TRUE when a conversion raises.
RECURSIVE BuildLines(_)
BuildLines(drafts) ==
    IF drafts = <<>> THEN [raised |-> FALSE, lines |-> <<>>]
    ELSE LET d == Head(drafts)
             rest == BuildLines(Tail(drafts))
         IN  IF d.account = "" THEN rest
             ELSE IF ~AmountOK(d.debit) \/ ~AmountOK(d.credit)
                  THEN [raised |-> TRUE, lines |-> <<>>]
             ELSE IF ParseAmount(d.debit) = 0 /\ ParseAmount(d.credit) = 0 THEN rest
             ELSE IF ~IntOK(d.account) THEN [raised |-> TRUE, lines |-> <<>>]
             ELSE IF rest.raised THEN rest
             ELSE [raised |-> FALSE,
                   lines |-> <<[account_id |-> ParseInt(d.account),
                                debit |-> ParseAmount(d.debit),
                                credit |-> ParseAmount(d.credit)]>> \o rest.lines]

\* The outcome of a request: the handler, how it ended, and the scope and the
\* number of the next_sequence call it made (number 0: it made none).
Outcome(op, status, scope, number) ==
    [op |-> op, status |-> status, scope |-> scope, number |-> number]

----------------------------------------------------------------------------
(* app/routes.py: seed_pcm, import_accounts.  The two handlers read the    *)
(* accounts table and write it in different round trips: each is modelled  *)
(* one round trip at a step, for the client whose request it is, the       *)
(* session of the request carried in req.                                  *)

\* The clients whose requests are in progress at the same time, each in a
\* session of its own.
Clients == {1, 2}

Idle == [phase |-> "idle"]

\* Client c has no request in progress: it can send one.
Free(c) == req[c].phase \in {"idle", "stored", "failed"}

\* A write of client c finds the accounting database locked by the session
\* of another client d, which is in a transaction that has written (SQLite
\* locks the database file from a connection's first INSERT, UPDATE or
\* DELETE to its COMMIT): an import that has flushed an account.  The write
\* waits, and raises OperationalError when the lock is not released in time.
LedgerLocked(c) ==
    \E d \in Clients \ {c} : req[d].phase = "importing" /\ req[d].flushed # <<>>

\* An account of the table has the code.
CodeTaken(table, code) == \E i \in DOMAIN table : table[i].code = code

\* Account.code is unique=True: the INSERT of rows raises IntegrityError
\* when one of them has the code of an account stored or of a row before it.
RECURSIVE UniqueViolated(_, _)
UniqueViolated(table, rows) ==
    IF rows = <<>> THEN FALSE
    ELSE \/ CodeTaken(table, Head(rows).code)
         \/ UniqueViolated(Append(table, Head(rows)), Tail(rows))

\* GET /accounts/seed-pcm up to the read of the bundled file: the accounts
\* are counted, and when there is none data/pcm_ma.json is read; `items` is
\* the content of that file, Absent when the file is not there.
seed_pcm_count(c, items) ==
    /\ Free(c)
    /\ IF Len(accounts) > 0
       THEN /\ last' = Outcome("seed_pcm", "exists", "", 0)
            /\ UNCHANGED <<ledgerVars, calls, req, form, cabinetVars>>
       ELSE IF items = Absent
       THEN /\ last' = Outcome("seed_pcm", "not_found", "", 0)
            /\ UNCHANGED <<ledgerVars, calls, req, form, cabinetVars>>
       ELSE /\ req' = [req EXCEPT ![c] = [phase |-> "seeding", items |-> items[1]]]
            /\ last' = Outcome("seed_pcm", "counted", "", 0)
            /\ UNCHANGED <<ledgerVars, calls, form, cabinetVars>>

\* db.session.commit() of seed_pcm: every row of the file becomes an
\* account, in file order, unless a code is taken by then: the commit
\* raises and no row is stored.
seed_pcm_commit(c) ==
    /\ req[c].phase = "seeding"
    /\ req' = [req EXCEPT ![c] = Idle]
    /\ IF LedgerLocked(c)
       THEN /\ last' = Outcome("seed_pcm", "locked", "", 0)
            /\ UNCHANGED <<ledgerVars, calls, form, cabinetVars>>
       ELSE IF UniqueViolated(accounts, req[c].items)
       THEN /\ last' = Outcome("seed_pcm", "duplicate_key", "", 0)
            /\ UNCHANGED <<ledgerVars, calls, form, cabinetVars>>
       ELSE /\ accounts' = accounts \o req[c].items
            /\ last' = Outcome("seed_pcm", "seeded", "", 0)
            /\ UNCHANGED <<journals, entries, numbering, invoices, today, handed, kept,
                           calls, form, cabinetVars>>

\* One turn of the loop of import_accounts (routes.py 131-140) in a session
\* that holds the rows still to read, the account added and not yet written
\* (pending) and the accounts written in its transaction (flushed):
\* Account.query...first() first flushes the session, which INSERTs the
\* pending account, then looks the code of the row up among the accounts
\* stored and those the session has written; a row whose code is not found
\* is added to the session.
ImportTurn(session, table) ==
    LET written == session.flushed \o session.pending
        r == Head(session.rows)
    IN  [phase |-> "importing", rows |-> Tail(session.rows), flushed |-> written,
         pending |-> IF CodeTaken(table \o written, r.code) THEN <<>> ELSE <<r>>]

\* The flush of a session's pending account fails: the database is locked
\* by another session, or the code has been taken since it was looked up.
FlushFails(c) ==
    IF req[c].pending = <<>> THEN "no"
    ELSE IF req[c].flushed = <<>> /\ LedgerLocked(c) THEN "locked"
    ELSE IF CodeTaken(accounts, req[c].pending[1].code) THEN "duplicate_key"
    ELSE "no"

\* POST /accounts/import up to the lookup of the first row: `file` is the
\* uploaded CSV, Absent when the form has none; `complete` tells whether it
\* has the four required columns.
import_accounts_read(c, file) ==
    /\ Free(c)
    /\ IF file = Absent
       THEN /\ last' = Outcome("import_accounts", "ignored", "", 0)
            /\ UNCHANGED <<ledgerVars, calls, req, form, cabinetVars>>
       ELSE IF ~file[1].complete
       THEN /\ last' = Outcome("import_accounts", "rejected", "", 0)
            /\ UNCHANGED <<ledgerVars, calls, req, form, cabinetVars>>
       ELSE LET open == [phase |-> "importing", rows |-> file[1].rows,
                         flushed |-> <<>>, pending |-> <<>>]
            IN  /\ req' = [req EXCEPT ![c] = IF open.rows = <<>> THEN open
                                             ELSE ImportTurn(open, accounts)]
                /\ last' = Outcome("import_accounts", "queried", "", 0)
                /\ UNCHANGED <<ledgerVars, calls, form, cabinetVars>>

\* The lookup of the next row of the file.  A flush that fails ends the
\* request and rolls its transaction back.
import_accounts_next(c) ==
    /\ req[c].phase = "importing"
    /\ req[c].rows # <<>>
    /\ IF FlushFails(c) # "no"
       THEN /\ req' = [req EXCEPT ![c] = Idle]
            /\ last' = Outcome("import_accounts", FlushFails(c), "", 0)
       ELSE /\ req' = [req EXCEPT ![c] = ImportTurn(req[c], accounts)]
            /\ last' = Outcome("import_accounts", "queried", "", 0)
    /\ UNCHANGED <<ledgerVars, calls, form, cabinetVars>>

\* db.session.commit() of import_accounts, after the last row: the pending
\* account is written and the transaction ends, the accounts of the session
\* stored in the order it added them.
import_accounts_commit(c) ==
    /\ req[c].phase = "importing"
    /\ req[c].rows = <<>>
    /\ req' = [req EXCEPT ![c] = Idle]
    /\ IF FlushFails(c) # "no"
       THEN /\ last' = Outcome("import_accounts", FlushFails(c), "", 0)
            /\ UNCHANGED <<ledgerVars, calls, form, cabinetVars>>
       ELSE /\ accounts' = accounts \o req[c].flushed \o req[c].pending
            /\ last' = Outcome("import_accounts", "imported", "", 0)
            /\ UNCHANGED <<journals, entries, numbering, invoices, today, handed, kept,
                           calls, form, cabinetVars>>

----------------------------------------------------------------------------
(* app/routes.py: entry_create, entry_validate (continued)                 *)

\* Variant: the rollback of an unbalanced entry leaves the counter advanced.
EntryRequest_keeps_increment(journal_id, row, entry_date, drafts, now) ==
    LET parsed == _parse_date(OrDefault(entry_date, isoformat(now)))
        seq == Journal_next_sequence(row, Given(parsed.date), now)
        built == BuildLines(drafts)
        entry == [journal_id |-> journal_id, entry_date |-> parsed.date,
                  reference |-> seq.seq, validated |-> FALSE, lines |-> built.lines]
    IN  IF ~parsed.ok
        THEN [status |-> "invalid_input", number |-> 0, reference |-> "",
              commit |-> FALSE, row |-> row, entry |-> entry]
        ELSE IF built.raised
        THEN [status |-> "invalid_input", number |-> row.next_number,
              reference |-> seq.seq, commit |-> FALSE, row |-> row, entry |-> entry]
        ELSE IF ~is_balanced(built.lines)
        THEN [status |-> "unbalanced", number |-> row.next_number,
              reference |-> seq.seq, commit |-> FALSE, row |-> seq.row, entry |-> entry]
        ELSE [status |-> "created", number |-> row.next_number,
              reference |-> seq.seq, commit |-> TRUE, row |-> seq.row, entry |-> entry]

\* What one entry_create request does to the tables, given the journal row
\* its session loaded: the response, the sequence number drawn (0 when
\* next_sequence was not reached), and on commit the journal row written and
\* the entry inserted.
EntryRequest(journal_id, row, entry_date, drafts, now) ==
    LET parsed == _parse_date(OrDefault(entry_date, isoformat(now)))
        seq == Journal_next_sequence(row, Given(parsed.date), now)
        built == BuildLines(drafts)
        entry == [journal_id |-> journal_id, entry_date |-> parsed.date,
                  reference |-> seq.seq, validated |-> FALSE, lines |-> built.lines]
    IN  IF ~parsed.ok
        THEN [status |-> "invalid_input", number |-> 0, reference |-> "",
              commit |-> FALSE, row |-> row, entry |-> entry]
        ELSE IF built.raised
        THEN [status |-> "invalid_input", number |-> row.next_number,
              reference |-> seq.seq, commit |-> FALSE, row |-> row, entry |-> entry]
        ELSE IF ~is_balanced(built.lines)
        THEN [status |-> "unbalanced", number |-> row.next_number,
              reference |-> seq.seq, commit |-> FALSE, row |-> row, entry |-> entry]
        ELSE [status |-> "created", number |-> row.next_number,
              reference |-> seq.seq, commit |-> TRUE, row |-> seq.row, entry |-> entry]

Note(h, scope, number) ==
    IF number = 0 THEN h ELSE [h EXCEPT ![scope] = @ \cup {number}]

\* POST /journals/<journal_id>/entries, one request served alone.
entry_create(journal_id, entry_date, drafts) ==
    IF journal_id \notin DOMAIN journals
    THEN /\ last' = Outcome("entry_create", "not_found", "", 0)
         /\ UNCHANGED <<ledgerVars, calls, req, form, cabinetVars>>
    ELSE LET row == journals[journal_id]
             r == EntryRequest(journal_id, row, entry_date, drafts, today)
         IN  /\ r.commit => Len(entries) < MaxEntries
             /\ journals' = [journals EXCEPT ![journal_id] = r.row]
             /\ entries' = IF r.commit THEN Append(entries, r.entry) ELSE entries
             /\ handed' = Note(handed, row.code, r.number)
             /\ kept' = IF r.commit THEN Note(kept, row.code, r.number) ELSE kept
             /\ last' = Outcome("entry_create", r.status, row.code, r.number)
             /\ UNCHANGED <<accounts, numbering, invoices, today, calls, req, form, cabinetVars>>

\* Variant: every entry stored is validated, not the one addressed alone.
entry_validate_all(entry_id) ==
    IF entry_id \notin DOMAIN entries
    THEN /\ last' = Outcome("entry_validate", "not_found", "", 0)
         /\ UNCHANGED <<ledgerVars, calls, req, form, cabinetVars>>
    ELSE /\ entries' = [i \in DOMAIN entries |-> [entries[i] EXCEPT !.validated = TRUE]]
         /\ last' = Outcome("entry_validate", "validated", "", 0)
         /\ UNCHANGED <<accounts, journals, numbering, invoices, today, handed, kept,
                        calls, req, form, cabinetVars>>

\* POST /entries/<entry_id>/validate.
entry_validate(entry_id) ==
    IF entry_id \notin DOMAIN entries
    THEN /\ last' = Outcome("entry_validate", "not_found", "", 0)
         /\ UNCHANGED <<ledgerVars, calls, req, form, cabinetVars>>
    ELSE /\ entries' = [entries EXCEPT ![entry_id].validated = TRUE]
         /\ last' = Outcome("entry_validate", "validated", "", 0)
         /\ UNCHANGED <<accounts, journals, numbering, invoices, today, handed, kept,
                        calls, req, form, cabinetVars>>

----------------------------------------------------------------------------
(* app/routes.py: _next_number, invoice_create.  The handler commits up to *)
(* three times (the Numbering row it inserts, the counter, the invoice)    *)
(* and each commit shows its write to the other requests: the handler is   *)
(* modelled one database round trip at a step, for the client whose        *)
(* request it is.                                                          *)

\* Variant: the UPDATE adds one to the stored counter.
Commit_increment(stored, held) == [stored EXCEPT !.next_number = @ + 1]

\* db.session.commit(): the UPDATE of a row sets the columns to the values
\* of the session's object, whatever the table holds by then.
Commit(stored, held) == held

\* Numbering.query.filter_by(scope=scope).first(), or the row _next_number
\* builds when there is none.
NumberingRow(scope, prefix) ==
    IF scope \in DOMAIN numbering THEN numbering[scope]
    ELSE [prefix |-> prefix, next_number |-> 1]

\* The loop over the submitted items (routes.py 590-605): an item without a
\* description is skipped before its numbers are converted.
RECURSIVE BuildItems(_)
BuildItems(drafts) ==
    IF drafts = <<>> THEN [raised |-> FALSE, items |-> <<>>]
    ELSE LET d == Head(drafts)
             qty == IF d.qty = "" THEN "0" ELSE d.qty
             price == IF d.price = "" THEN "0" ELSE d.price
             rest == BuildItems(Tail(drafts))
         IN  IF d.desc = "" THEN rest
             ELSE IF ~AmountOK(qty) \/ ~AmountOK(price)
                  THEN [raised |-> TRUE, items |-> <<>>]
             ELSE IF rest.raised THEN rest
             ELSE [raised |-> FALSE,
                   items |-> <<[description |-> d.desc,
                                quantity |-> ParseAmount(qty),
                                unit_price |-> ParseAmount(price)]>> \o rest.items]

\* (mutant) invoices.number carries no unique constraint.
IntegrityError_never(table, number) == FALSE

\* Invoice.number is unique=True: the insert of a second row with a number
\* already stored fails on commit.
IntegrityError(table, number) ==
    \E i \in DOMAIN table : table[i].number = number

\* invoice_create up to the query of _next_number: the date is parsed, then
\* the row of the scope is looked up; the request holds the row it read, or
\* found none.
invoice_create_query(c, is_quote, invoice_date) ==
    /\ Free(c)
    /\ LET parsed == _parse_date(OrDefault(invoice_date, isoformat(today)))
           prefix == IF is_quote THEN "DEV-" ELSE "INV-"
           scope == IF is_quote THEN "quote" ELSE "invoice"
           found == scope \in DOMAIN numbering
           open == [phase |-> IF found THEN "held" ELSE "missing",
                    scope |-> scope, prefix |-> prefix, is_quote |-> is_quote,
                    invoice_date |-> parsed.date, found |-> found,
                    row |-> NumberingRow(scope, prefix), number |-> "", drawn |-> 0,
                    status |-> ""]
       IN  IF ~parsed.ok
           THEN /\ req' = [req EXCEPT ![c] =
                              [open EXCEPT !.phase = "failed", !.status = "invalid_input"]]
                /\ last' = Outcome("invoice_create", "invalid_input", "", 0)
                /\ UNCHANGED <<ledgerVars, calls, form, cabinetVars>>
           ELSE /\ req' = [req EXCEPT ![c] = open]
                /\ last' = Outcome("_next_number", IF found THEN "found" ELSE "missing",
                                   scope, 0)
                /\ UNCHANGED <<ledgerVars, calls, form, cabinetVars>>

\* _next_number, no row found: the row is inserted with next_number = 1 and
\* committed; Numbering.scope is unique=True, so the commit fails when
\* another request inserted the row of the scope in between.
numbering_insert(c) ==
    /\ req[c].phase = "missing"
    /\ IF req[c].scope \in DOMAIN numbering
       THEN /\ req' = [req EXCEPT ![c].phase = "failed",
                                  ![c].status = "duplicate_scope"]
            /\ last' = Outcome("invoice_create", "duplicate_scope", req[c].scope, 0)
            /\ UNCHANGED <<ledgerVars, calls, form, cabinetVars>>
       ELSE /\ numbering' = [s \in DOMAIN numbering \cup {req[c].scope} |->
                                IF s = req[c].scope THEN req[c].row ELSE numbering[s]]
            /\ req' = [req EXCEPT ![c].phase = "inserted"]
            /\ last' = Outcome("_next_number", "inserted", req[c].scope, 0)
            /\ UNCHANGED <<accounts, journals, entries, invoices, today, handed, kept,
                           calls, form, cabinetVars>>

\* _next_number after the insert: the commit expired the row, next_sequence
\* loads it again from the database.
numbering_refresh(c) ==
    /\ req[c].phase = "inserted"
    /\ req' = [req EXCEPT ![c].phase = "held", ![c].row = numbering[req[c].scope]]
    /\ last' = Outcome("_next_number", "reloaded", req[c].scope, 0)
    /\ UNCHANGED <<ledgerVars, calls, form, cabinetVars>>

\* Variant: the incremented row is written over the row of scope 'invoice',
\* whatever the scope of the request.
numbering_commit_shared(c) ==
    /\ req[c].phase = "held"
    /\ req[c].row.next_number <= MaxInvoices
    /\ LET seq == Numbering_next_sequence(req[c].row, Given(today), today)
       IN  /\ numbering' = [s \in DOMAIN numbering \cup {"invoice"} |->
                              IF s = "invoice" THEN seq.row ELSE numbering[s]]
           /\ handed' = Note(handed, req[c].scope, req[c].row.next_number)
           /\ kept' = Note(kept, req[c].scope, req[c].row.next_number)
           /\ req' = [req EXCEPT ![c].phase = "numbered", ![c].number = seq.seq,
                                 ![c].drawn = req[c].row.next_number]
           /\ last' = Outcome("_next_number", "returned", req[c].scope,
                              req[c].row.next_number)
           /\ UNCHANGED <<accounts, journals, entries, invoices, today, calls, form,
                          cabinetVars>>

\* _next_number, next_sequence and its commit: the number is formed from
\* the row the request holds, and the commit writes the incremented value of
\* that row over the stored one.
numbering_commit(c) ==
    /\ req[c].phase = "held"
    /\ req[c].row.next_number <= MaxInvoices
    /\ LET seq == Numbering_next_sequence(req[c].row, Given(today), today)
       IN  /\ numbering' = [numbering EXCEPT ![req[c].scope] = Commit(@, seq.row)]
           /\ handed' = Note(handed, req[c].scope, req[c].row.next_number)
           /\ kept' = Note(kept, req[c].scope, req[c].row.next_number)
           /\ req' = [req EXCEPT ![c].phase = "numbered", ![c].number = seq.seq,
                                 ![c].drawn = req[c].row.next_number]
           /\ last' = Outcome("_next_number", "returned", req[c].scope,
                              req[c].row.next_number)
           /\ UNCHANGED <<accounts, journals, entries, invoices, today, calls, form,
                          cabinetVars>>

\* invoice_create from the Invoice to the response: the items are read from
\* the form and built, and the invoice is committed with them, unless an
\* item raised or the number is already stored.  This step calls
\* next_sequence no more: its outcome carries number 0.
invoice_insert(c, item_drafts) ==
    /\ req[c].phase = "numbered"
    /\ LET built == BuildItems(item_drafts)
           inv == [number |-> req[c].number, invoice_date |-> req[c].invoice_date,
                   is_quote |-> req[c].is_quote, prefix |-> req[c].prefix,
                   items |-> built.items]
           status == IF built.raised THEN "invalid_input"
                     ELSE IF IntegrityError(invoices, req[c].number) THEN "duplicate_key"
                     ELSE "created"
       IN  /\ invoices' = IF status = "created" THEN Append(invoices, inv) ELSE invoices
           /\ req' = [req EXCEPT ![c].phase = IF status = "created" THEN "stored"
                                              ELSE "failed",
                                 ![c].status = status]
           /\ last' = Outcome("invoice_create", status, req[c].scope, 0)
           /\ UNCHANGED <<accounts, journals, entries, numbering, today, handed, kept, calls,
                          form, cabinetVars>>

----------------------------------------------------------------------------
(* Initial state: the tables as the applications create them.              *)

NoOutcome == Outcome("none", "", "", 0)

InitLedger ==
    /\ accounts = <<>>
    /\ journals = DefaultJournals
    /\ entries = <<>>
    /\ numbering = [s \in {} |-> [prefix |-> "", next_number |-> 1]]
    /\ invoices = <<>>
    /\ today = 20241231
    /\ handed = [s \in Scopes |-> {}]
    /\ kept = [s \in Scopes |-> {}]

InitCabinet ==
    /\ cabinets = <<>>
    /\ societes = <<>>
    /\ associates = <<>>
    /\ cessions = <<>>

InitRest ==
    /\ last = NoOutcome
    /\ calls = <<>>
    /\ req = [c \in Clients |-> Idle]
    /\ form = Absent

Init == InitLedger /\ InitCabinet /\ InitRest

----------------------------------------------------------------------------
(* Spec: documents numbered in every scope, one request at a time.         *)

Drafts(ids, amounts) ==
    [account : ids, debit : amounts, credit : amounts]

RECURSIVE ListsUpTo(_, _)
ListsUpTo(S, n) ==
    IF n = 0 THEN {<<>>}
    ELSE LET shorter == ListsUpTo(S, n - 1)
         IN  shorter \cup {Append(l, x) : l \in {m \in shorter : Len(m) = n - 1}, x \in S}

\* The journal ids requests name: those of journals ACH and VTE and the id
\* of no journal.
JournalArgs == {1, 2, 5}

EntryArgs == 1 .. (MaxEntries + 1)

InvoiceDateFields == {Absent, Given("31/12/2024")}

\* One line: a line that balances itself, a one-sided line, and a line whose
\* debit is not a number.
SmallDraftLists ==
    {<<[account |-> "1", debit |-> "0.01", credit |-> "0,01"]>>,
     <<[account |-> "1", debit |-> "0.01", credit |-> ""]>>,
     <<[account |-> "1", debit |-> "abc", credit |-> ""]>>}

ItemLists ==
    {<<i>> : i \in [desc : {"Audit"}, qty : {"0.01", "abc"}, price : {"0.01"}]}

\* The requests for invoices and quotes do not overlap: they are those of
\* one client, each begun after the one before has ended.
Next ==
    \/ \E j \in JournalArgs, d \in {Given("2024-12-31"), Given("31/12/2024")},
          ds \in SmallDraftLists :
          entry_create(j, d, ds)
    \/ \E q \in BOOLEAN, d \in InvoiceDateFields : invoice_create_query(1, q, d)
    \/ numbering_insert(1)
    \/ numbering_refresh(1)
    \/ numbering_commit(1)
    \/ \E items \in ItemLists : invoice_insert(1, items)

Spec == Init /\ [][Next]_vars

----------------------------------------------------------------------------
(* Claims checked under Spec.                                              *)

Drew(o, s) == o.scope = s /\ o.number # 0

\* C3 as stated: within one scope, a number that next_sequence has returned
\* is never returned again by a later call on that scope, whatever became of
\* the request it was returned to.
C3_NeverHandedOutAgain ==
    [][\A s \in Scopes : Drew(last', s) => last'.number \notin handed[s]]_vars

\* C3 amended: within one scope, a number returned by a next_sequence call
\* whose increment was committed (an accepted entry_create, any invoice_create
\* that reached _next_number) is never returned again by a later call; only a
\* number drawn by an entry_create that was rolled back is returned again.
C3_KeptNeverHandedOutAgain ==
    [][\A s \in Scopes : Drew(last', s) => last'.number \notin kept[s]]_vars

\* Number 2 is drawn in journal ACH after number 1 was kept there, and both
\* invoice numbers were drawn although an invoice of them was not stored.
C3_Witness ==
    /\ last = Outcome("entry_create", "created", "ACH", 2)
    /\ kept["ACH"] = {1, 2}
    /\ kept["invoice"] = {1, 2}
    /\ Len(invoices) < 2

\* The row of a scope: a journal's row, a numbering row, or <<>> when the
\* numbering table has no row of that scope.
RowIn(js, nb, s) ==
    IF \E j \in DOMAIN js : js[j].code = s
    THEN <<js[CHOOSE j \in DOMAIN js : js[j].code = s]>>
    ELSE IF s \in DOMAIN nb THEN <<nb[s]>> ELSE <<>>

OthersUntouched(s) ==
    /\ \A j \in JournalIds : journals[j].code # s => journals'[j] = journals[j]
    /\ \A o \in NumberingScopes \ {s} :
          RowIn(journals', numbering', o) = RowIn(journals, numbering, o)

\* C5: two scopes never share a counter.  An entry_create on one journal
\* leaves the row of every other journal and every numbering row as it was;
\* every step of an invoice_create in scope 'quote' or 'invoice' leaves the
\* other scope's row and every journal's row as it was; and the row of the
\* scope addressed either stays or has its next_number advanced by exactly 1.
C5_ScopesDoNotShare ==
    [][/\ last'.op = "entry_create"
             => /\ OthersUntouched(last'.scope)
                /\ \A j \in JournalIds :
                      journals'[j].next_number - journals[j].next_number \in {0, 1}
       /\ \A c \in Clients :
             \/ req[c].phase \notin {"missing", "inserted", "held", "numbered"}
             \/ req'[c] = req[c]
             \/ LET s == req[c].scope
                    before == IF s \in DOMAIN numbering
                              THEN numbering[s].next_number ELSE 1
                IN  /\ OthersUntouched(s)
                    /\ s \in DOMAIN numbering' =>
                           numbering'[s].next_number - before \in {0, 1}
       /\ \A c \in Clients :
             (req[c].phase \in {"idle", "stored", "failed"} /\ req'[c] # req[c])
                => /\ numbering' = numbering
                   /\ journals' = journals
      ]_vars

\* A quote has just been numbered 2 while the invoice scope stands at one
\* draw, journal ACH at one entry and journal VTE at none.
C5_Witness ==
    /\ last = Outcome("invoice_create", "created", "quote", 0)
    /\ req[1].number = "DEV-2024-0002"
    /\ "invoice" \in DOMAIN numbering /\ numbering["invoice"].next_number = 2
    /\ numbering["quote"].next_number = 3
    /\ journals[1].next_number = 2
    /\ journals[2].next_number = 1

----------------------------------------------------------------------------
(* SpecEntry: one entry form, drawn from every form of up to MaxLines      *)
(* drafts, served on a fresh ledger or on one that already holds an entry.  *)

SeedEntry ==
    [journal_id |-> 1, entry_date |-> 20240630, reference |-> "ACH-2024-0001",
     validated |-> FALSE,
     lines |-> <<[account_id |-> 3, debit |-> 20, credit |-> 0],
                 [account_id |-> 1, debit |-> 0, credit |-> 20]>>]

\* The ledger after one accepted entry_create on journal ACH.
InitSeeded ==
    /\ accounts = <<>>
    /\ journals = [DefaultJournals EXCEPT ![1].next_number = 2]
    /\ entries = <<SeedEntry>>
    /\ numbering = [s \in {} |-> [prefix |-> "", next_number |-> 1]]
    /\ invoices = <<>>
    /\ today = 20241231
    /\ handed = [s \in Scopes |-> IF s = "ACH" THEN {1} ELSE {}]
    /\ kept = [s \in Scopes |-> IF s = "ACH" THEN {1} ELSE {}]

RichDraftLists ==
    ListsUpTo(Drafts({"", "1", "2", "x"},
                     {"", "0.01", "0,02", "0.006", "0.004", "abc"}), MaxLines)

EntryForms ==
    [journal_id : {1}, entry_date : {Given("2024-12-31"), Given("2025-01-01")},
     drafts : RichDraftLists]

InitEntry ==
    /\ InitLedger \/ InitSeeded
    /\ InitCabinet
    /\ last = NoOutcome
    /\ calls = <<>>
    /\ req = <<>>
    /\ form \in {Given(f) : f \in EntryForms}

\* The form received is served, once.
serve_form ==
    /\ form # Absent
    /\ last = NoOutcome
    /\ entry_create(form[1].journal_id, form[1].entry_date, form[1].drafts)

NextEntry == serve_form

SpecEntry == InitEntry /\ [][NextEntry]_vars

\* The drafts of a form that name an account: the lines submitted.
RECURSIVE Submitted(_)
Submitted(drafts) ==
    IF drafts = <<>> THEN <<>>
    ELSE IF Head(drafts).account = "" THEN Submitted(Tail(drafts))
    ELSE <<Head(drafts)>> \o Submitted(Tail(drafts))

\* Every submitted line converts: its amounts are numbers and its account an id.
Converts(drafts) ==
    \A i \in DOMAIN drafts :
        drafts[i].account # "" =>
            /\ drafts[i].debit \in DOMAIN AmountTable
            /\ drafts[i].credit \in DOMAIN AmountTable
            /\ drafts[i].account \in DOMAIN IntTable

RECURSIVE DraftDebits(_)
DraftDebits(drafts) ==
    IF drafts = <<>> THEN 0
    ELSE AmountTable[Head(drafts).debit] + DraftDebits(Tail(drafts))

RECURSIVE DraftCredits(_)
DraftCredits(drafts) ==
    IF drafts = <<>> THEN 0
    ELSE AmountTable[Head(drafts).credit] + DraftCredits(Tail(drafts))

Gap(drafts) == DraftDebits(Submitted(drafts)) - DraftCredits(Submitted(drafts))

\* C1: for every submitted set of lines, when the debits and the credits sum
\* to the same amount to two decimals (their difference rounds to 0.00) the
\* entry is committed with its lines (one more entry, carrying the totals
\* submitted, the journal's counter advanced); when the sums differ by 0.01
\* or more the request is rejected as unbalanced and the entries, their
\* lines and the journals are left exactly as they were.
C1_BalanceDecides ==
    [][LET f == form[1]
           gap == Gap(f.drafts)
           n == Len(entries)
       IN  Converts(f.drafts) =>
             /\ round_2(DraftDebits(Submitted(f.drafts)),
                        DraftCredits(Submitted(f.drafts))) = 0 =>
                  /\ last'.status = "created"
                  /\ Len(entries') = n + 1
                  /\ SubSeq(entries', 1, n) = entries
                  /\ entries'[n + 1].journal_id = f.journal_id
                  /\ SumDebit(entries'[n + 1].lines) = DraftDebits(Submitted(f.drafts))
                  /\ SumCredit(entries'[n + 1].lines) = DraftCredits(Submitted(f.drafts))
                  /\ journals'[f.journal_id].next_number
                         = journals[f.journal_id].next_number + 1
             /\ (gap >= 10 \/ gap <= -10) =>
                  /\ last'.status = "unbalanced"
                  /\ entries' = entries
                  /\ journals' = journals
      ]_vars

\* Two lines whose debits exceed the credits by exactly 0.01 were submitted to
\* a ledger holding one entry, and were rejected.
C1_Witness ==
    /\ last = Outcome("entry_create", "unbalanced", "ACH", 2)
    /\ Len(form[1].drafts) = 2
    /\ Len(Submitted(form[1].drafts)) = 2
    /\ Gap(form[1].drafts) = 10
    /\ entries = <<SeedEntry>>

----------------------------------------------------------------------------
(* SpecSeq: next_sequence called again and again on one object, a Journal   *)
(* or a Numbering row, with dates of either year.                           *)

\* journal.next_sequence(when), called on the journal object.
Journal_call(j, when) ==
    LET r == Journal_next_sequence(journals[j], when, today)
    IN  /\ Len(calls) < MaxCalls
        /\ \A i \in DOMAIN calls : calls[i].scope = journals[j].code
        /\ journals' = [journals EXCEPT ![j] = r.row]
        /\ calls' = Append(calls, [scope |-> journals[j].code,
                                   year |-> year(OrDefault(when, today)),
                                   seq |-> r.seq])
        /\ last' = Outcome("next_sequence", "returned", journals[j].code,
                           journals[j].next_number)
        /\ UNCHANGED <<accounts, entries, numbering, invoices, today, handed, kept,
                       req, form, cabinetVars>>

\* cfg.next_sequence(when), called on a Numbering row.
Numbering_call(scope, when) ==
    LET r == Numbering_next_sequence(numbering[scope], when, today)
    IN  /\ Len(calls) < MaxCalls
        /\ \A i \in DOMAIN calls : calls[i].scope = scope
        /\ numbering' = [numbering EXCEPT ![scope] = r.row]
        /\ calls' = Append(calls, [scope |-> scope,
                                   year |-> year(OrDefault(when, today)),
                                   seq |-> r.seq])
        /\ last' = Outcome("next_sequence", "returned", scope,
                           numbering[scope].next_number)
        /\ UNCHANGED <<accounts, journals, entries, invoices, today, handed, kept,
                       req, form, cabinetVars>>

\* The journals of init-defaults and the row _next_number inserts for invoices.
InitSeq ==
    /\ accounts = <<>>
    /\ journals = DefaultJournals
    /\ entries = <<>>
    /\ numbering = [s \in {"invoice"} |-> [prefix |-> "INV-", next_number |-> 1]]
    /\ invoices = <<>>
    /\ today = 20241231
    /\ handed = [s \in Scopes |-> {}]
    /\ kept = [s \in Scopes |-> {}]
    /\ InitCabinet
    /\ InitRest

WhenArgs == {Absent, Given(20240630), Given(20250101)}

NextSeq ==
    \/ \E w \in WhenArgs : Journal_call(1, w)
    \/ \E w \in WhenArgs : Numbering_call("invoice", w)

SpecSeq == InitSeq /\ [][NextSeq]_vars

\* The four-digit numbers, written out.
FourDigits ==
    <<"0001", "0002", "0003", "0004", "0005", "0006", "0007", "0008", "0009",
      "0010", "0011", "0012", "0013", "0014">>

All2024 == \A i \in DOMAIN calls : calls[i].year = 2024

\* C2: from next_number = 1 with prefix "ACH-", the N calls made so far with
\* dates in 2024 have returned, in call order, ACH-2024-0001, ACH-2024-0002,
\* ... up to N zero-padded to four digits, without gap or repeat, and the
\* stored next_number is N + 1; the same for a Numbering row and its prefix.
C2_SequenceFromOne ==
    All2024 =>
        /\ \A i \in DOMAIN calls :
              /\ calls[i].scope = "ACH" => calls[i].seq = "ACH-2024-" \o FourDigits[i]
              /\ calls[i].scope = "invoice" => calls[i].seq = "INV-2024-" \o FourDigits[i]
        /\ (calls # <<>> /\ calls[1].scope = "ACH")
              => journals[1].next_number = Len(calls) + 1
        /\ (calls # <<>> /\ calls[1].scope = "invoice")
              => numbering["invoice"].next_number = Len(calls) + 1

\* Ten calls on journal ACH, all dated 2024, the tenth returning ACH-2024-0010.
C2_Witness ==
    /\ Len(calls) = 10
    /\ All2024
    /\ calls[10].scope = "ACH"
    /\ calls[10].seq = "ACH-2024-0010"
    /\ journals[1].next_number = 11

----------------------------------------------------------------------------
(* cabinet/models.py: Societe.total_parts, Cession.apply_to_distribution   *)

\* The names the model gives to parties of a cession.
Names == {"A", "B", "C"}

\* request.form.get("parts_count", type=int): the strings the model submits
\* and the integers they convert to; for any other string the conversion
\* fails and get returns None.
PartsTable ==
    ("0" :> 0) @@ ("-5" :> -5) @@ ("30" :> 30) @@ ("100" :> 100) @@
    ("150" :> 150)

\* request.form.get("societe_id", type=int), likewise.
SocieteTable == ("0" :> 0) @@ ("1" :> 1) @@ ("2" :> 2)

\* The value of form.get(key, type=int): None is Absent.
FormInt(table, s) == IF s \in DOMAIN table THEN Given(table[s]) ELSE Absent

Associate(name, parts_count) == [name |-> name, parts_count |-> parts_count]

RECURSIVE SumParts(_)
SumParts(list) ==
    IF list = <<>> THEN 0 ELSE Head(list).parts_count + SumParts(Tail(list))

\* Societe.total_parts
total_parts(list) == SumParts(list)

NamesOf(list) == {list[i].name : i \in DOMAIN list}

\* next((a for a in societe.associates if a.name == name), None), as the
\* position of the associate found.
FirstNamed(list, name) ==
    CHOOSE i \in DOMAIN list :
        /\ list[i].name = name
        /\ \A j \in 1 .. (i - 1) : list[j].name # name

\* Variant: an associate is appended without looking for the name.
FindOrCreate_always(list, name) == Append(list, Associate(name, 0))

FindOrCreate(list, name) ==
    IF name \in NamesOf(list) THEN list ELSE Append(list, Associate(name, 0))

Max(a, b) == IF a >= b THEN a ELSE b

\* Variant: the cessionnaire receives only what the cedant held.
apply_to_distribution_held(list, cedant, cessionnaire, parts) ==
    IF parts <= 0
    THEN list
    ELSE LET l1 == FindOrCreate(list, cedant)
             l2 == FindOrCreate(l1, cessionnaire)
             c == FirstNamed(l2, cedant)
             moved == IF l2[c].parts_count <= parts THEN l2[c].parts_count ELSE parts
             l3 == [l2 EXCEPT ![c].parts_count = Max(0, @ - parts)]
             d == FirstNamed(l3, cessionnaire)
         IN  [l3 EXCEPT ![d].parts_count = @ + moved]

\* Variant: the cedant's count is not floored at zero.
apply_to_distribution_unfloored(list, cedant, cessionnaire, parts) ==
    IF parts <= 0
    THEN list
    ELSE LET l1 == FindOrCreate(list, cedant)
             l2 == FindOrCreate(l1, cessionnaire)
             c == FirstNamed(l2, cedant)
             l3 == [l2 EXCEPT ![c].parts_count = @ - parts]
             d == FirstNamed(l3, cessionnaire)
         IN  [l3 EXCEPT ![d].parts_count = @ + parts]

\* Variant: only a negative parts value returns early.
apply_to_distribution_zero(list, cedant, cessionnaire, parts) ==
    IF parts < 0
    THEN list
    ELSE LET l1 == FindOrCreate(list, cedant)
             l2 == FindOrCreate(l1, cessionnaire)
             c == FirstNamed(l2, cedant)
             l3 == [l2 EXCEPT ![c].parts_count = Max(0, @ - parts)]
             d == FirstNamed(l3, cessionnaire)
         IN  [l3 EXCEPT ![d].parts_count = @ + parts]

\* Cession.apply_to_distribution(societe, cedant, cessionnaire, parts), on
\* the associates list of the societe: the list it leaves.  The two
\* assignments are made in the code's order, the second reading what the
\* first wrote when both names are the same associate.
apply_to_distribution(list, cedant, cessionnaire, parts) ==
    IF parts <= 0
    THEN list
    ELSE LET l1 == FindOrCreate(list, cedant)
             l2 == FindOrCreate(l1, cessionnaire)
             c == FirstNamed(l2, cedant)
             l3 == [l2 EXCEPT ![c].parts_count = Max(0, @ - parts)]
             d == FirstNamed(l3, cessionnaire)
         IN  [l3 EXCEPT ![d].parts_count = @ + parts]

----------------------------------------------------------------------------
(* cabinet/cabinets/routes.py: create, delete                              *)
(* cabinet/societes/routes.py: create                                      *)
(* A handler that makes several database round trips is modelled one round *)
(* trip at a step, for the client whose request it is: between two of its  *)
(* round trips the requests of the other clients are served.               *)

\* The id a new row receives in a table whose rows have the ids given: the
\* id column is an INTEGER PRIMARY KEY, which SQLite fills with one more than
\* the largest id of the table, 1 in an empty table.
NewId(ids) ==
    IF ids = {} THEN 1 ELSE (CHOOSE m \in ids : \A i \in ids : i <= m) + 1

\* The elements of a finite set of integers, smallest first.
RECURSIVE Ascending(_)
Ascending(S) ==
    IF S = {} THEN <<>>
    ELSE LET m == CHOOSE x \in S : \A y \in S : x <= y
         IN  <<m>> \o Ascending(S \ {m})

\* A table without the rows of the given ids: DELETE ... WHERE id = ?, which
\* deletes nothing for an id no row has.
Without(table, ids) == [i \in DOMAIN table \ ids |-> table[i]]

\* societe.associates as the lazy load gives it: the ids of the rows of
\* `table` whose societe_id is that of the societe, in id order.
AssociateIds(table, societe_id) ==
    Ascending({i \in DOMAIN table : table[i].societe_id = societe_id})

\* The Associates of those rows, as the list apply_to_distribution works on.
ListOf(table, societe_id) ==
    LET ids == AssociateIds(table, societe_id)
    IN  [k \in DOMAIN ids |-> Associate(table[ids[k]].name, table[ids[k]].parts_count)]

\* The flush of societe.associates: the rows loaded (ids[k] holding what
\* list[k] held) are updated to the parts_count the list gives them, and the
\* associates appended to the list are inserted, one after the other, with
\* the societe's id.
Flushed(table, societe_id, ids, list) ==
    LET first == NewId(DOMAIN table)
        added == {first + (k - Len(ids)) - 1 : k \in (Len(ids) + 1) .. Len(list)}
        place(i) == CHOOSE k \in DOMAIN ids : ids[k] = i
    IN  [i \in DOMAIN table \cup added |->
            IF i \in added
            THEN LET a == list[i - first + Len(ids) + 1]
                 IN  [societe_id |-> societe_id, name |-> a.name,
                      parts_count |-> a.parts_count]
            ELSE IF \E k \in DOMAIN ids : ids[k] = i
            THEN [table[i] EXCEPT !.parts_count = list[place(i)].parts_count]
            ELSE table[i]]

\* A write of client c finds the cabinet database locked by the session of
\* another client d, which is in a transaction that has written (SQLite
\* locks the database file from a connection's first INSERT, UPDATE or
\* DELETE to its COMMIT): a cessions create that has flushed its cession;
\* c = 0 is a request served in one step.  The write waits, and raises
\* OperationalError when the lock is not released in time.
CabinetLocked(c) == \E d \in Clients \ {c} : req[d].phase = "cession_flushed"

CabinetOutcome(op, status) == [op |-> op, status |-> status]

\* POST /cabinets/create.  Cabinet.name is unique: the commit of a name a
\* cabinet already has raises IntegrityError and stores nothing.
cabinets_create(name) ==
    IF name = ""
    THEN /\ last' = CabinetOutcome("cabinets_create", "ignored")
         /\ UNCHANGED <<ledgerVars, calls, req, form, cabinetVars>>
    ELSE IF CabinetLocked(0)
    THEN /\ last' = CabinetOutcome("cabinets_create", "locked")
         /\ UNCHANGED <<ledgerVars, calls, req, form, cabinetVars>>
    ELSE IF \E c \in DOMAIN cabinets : cabinets[c].name = name
    THEN /\ last' = CabinetOutcome("cabinets_create", "duplicate_key")
         /\ UNCHANGED <<ledgerVars, calls, req, form, cabinetVars>>
    ELSE /\ NewId(DOMAIN cabinets) <= MaxCabinets
         /\ cabinets' = cabinets @@ (NewId(DOMAIN cabinets) :> [name |-> name])
         /\ last' = CabinetOutcome("cabinets_create", "created")
         /\ UNCHANGED <<ledgerVars, calls, req, form, societes, associates,
                        cessions>>

\* POST /cabinets/<cabinet_id>/delete, first round trip:
\* Cabinet.query.get_or_404(cabinet_id).
cabinets_delete_get(c, cabinet_id) ==
    /\ req[c].phase = "idle"
    /\ IF cabinet_id \notin DOMAIN cabinets
       THEN /\ last' = CabinetOutcome("cabinets_delete", "not_found")
            /\ UNCHANGED <<ledgerVars, calls, req, form, cabinetVars>>
       ELSE /\ req' = [req EXCEPT ![c] = [phase |-> "delete_found",
                                          cabinet_id |-> cabinet_id]]
            /\ last' = CabinetOutcome("cabinets_delete", "found")
            /\ UNCHANGED <<ledgerVars, calls, form, cabinetVars>>

\* db.session.delete(item) follows the cascades "all, delete-orphan" and
\* loads what they reach: first Cabinet.societes, the societes whose
\* cabinet_id is the cabinet's.
cabinets_delete_societes(c) ==
    /\ req[c].phase = "delete_found"
    /\ LET mine == {s \in DOMAIN societes :
                       societes[s].cabinet_id = Given(req[c].cabinet_id)}
       IN  req' = [req EXCEPT ![c] =
                      [phase |-> IF mine = {} THEN "delete_loaded" ELSE "delete_associates",
                       cabinet_id |-> req[c].cabinet_id,
                       societes |-> mine, todo |-> Ascending(mine),
                       associates |-> {}, cessions |-> {}]]
    /\ last' = CabinetOutcome("cabinets_delete", "societes_loaded")
    /\ UNCHANGED <<ledgerVars, calls, form, cabinetVars>>

\* Then, societe after societe, Societe.associates of the societe ...
cabinets_delete_associates(c) ==
    /\ req[c].phase = "delete_associates"
    /\ LET s == Head(req[c].todo)
       IN  req' = [req EXCEPT ![c].phase = "delete_cessions",
                              ![c].associates =
                                  @ \cup {i \in DOMAIN associates :
                                             associates[i].societe_id = s}]
    /\ last' = CabinetOutcome("cabinets_delete", "associates_loaded")
    /\ UNCHANGED <<ledgerVars, calls, form, cabinetVars>>

\* ... and Societe.cessions of the societe.
cabinets_delete_cessions(c) ==
    /\ req[c].phase = "delete_cessions"
    /\ LET s == Head(req[c].todo)
           rest == Tail(req[c].todo)
       IN  req' = [req EXCEPT ![c].phase = IF rest = <<>> THEN "delete_loaded"
                                           ELSE "delete_associates",
                              ![c].todo = rest,
                              ![c].cessions =
                                  @ \cup {i \in DOMAIN cessions :
                                             cessions[i].societe_id = s}]
    /\ last' = CabinetOutcome("cabinets_delete", "cessions_loaded")
    /\ UNCHANGED <<ledgerVars, calls, form, cabinetVars>>

\* db.session.commit(): the rows the session loaded are deleted, each by
\* its id: the associates and the cessions, the societes, the cabinet.  A
\* row another request stored since the load stays; a DELETE that finds no
\* row of its id only warns.
cabinets_delete_commit(c) ==
    /\ req[c].phase = "delete_loaded"
    /\ req' = [req EXCEPT ![c] = Idle]
    /\ IF CabinetLocked(c)
       THEN /\ last' = CabinetOutcome("cabinets_delete", "locked")
            /\ UNCHANGED <<ledgerVars, calls, form, cabinetVars>>
       ELSE /\ cabinets' = Without(cabinets, {req[c].cabinet_id})
            /\ societes' = Without(societes, req[c].societes)
            /\ associates' = Without(associates, req[c].associates)
            /\ cessions' = Without(cessions, req[c].cessions)
            /\ last' = CabinetOutcome("cabinets_delete", "deleted")
            /\ UNCHANGED <<ledgerVars, calls, form>>

\* request.form.get("cabinet_id") of POST /societes/create: the strings the
\* model submits and the integers int() gives for them; for any other string
\* that is not empty int() raises ValueError.
CabinetTable == ("0" :> 0) @@ ("1" :> 1) @@ ("2" :> 2)

\* POST /societes/create.  The cabinet named need not exist: the column is a
\* foreign key SQLite does not enforce.
societes_create(name, cabinet_field) ==
    IF name = ""
    THEN /\ last' = CabinetOutcome("societes_create", "ignored")
         /\ UNCHANGED <<ledgerVars, calls, req, form, cabinetVars>>
    ELSE IF cabinet_field # "" /\ cabinet_field \notin DOMAIN CabinetTable
    THEN /\ last' = CabinetOutcome("societes_create", "invalid_input")
         /\ UNCHANGED <<ledgerVars, calls, req, form, cabinetVars>>
    ELSE IF CabinetLocked(0)
    THEN /\ last' = CabinetOutcome("societes_create", "locked")
         /\ UNCHANGED <<ledgerVars, calls, req, form, cabinetVars>>
    ELSE LET id == NewId(DOMAIN societes)
             cabinet_id == IF cabinet_field = ""
                           THEN Absent
                           ELSE Given(CabinetTable[cabinet_field])
         IN  /\ id <= MaxSocietes
             /\ societes' = societes @@ (id :> [name |-> name, cabinet_id |-> cabinet_id])
             /\ last' = CabinetOutcome("societes_create", "created")
             /\ UNCHANGED <<ledgerVars, calls, req, form, cabinets, associates,
                            cessions>>

----------------------------------------------------------------------------
(* cabinet/cessions/routes.py: create                                      *)

CessionOutcome(status) == [op |-> "cessions_create", status |-> status]

\* POST /cessions/create up to Societe.query.get_or_404(societe_id) and
\* db.session.add(cession): the form is read and the societe looked up.
cessions_create_get(c, societe_field, cedant, cessionnaire, parts_field) ==
    /\ req[c].phase = "idle"
    /\ LET societe_id == FormInt(SocieteTable, societe_field)
           parts_count == FormInt(PartsTable, parts_field)
       IN  IF \/ societe_id = Absent \/ societe_id = Given(0)
              \/ cedant = "" \/ cessionnaire = ""
              \/ parts_count = Absent \/ parts_count = Given(0)
           THEN /\ last' = CessionOutcome("ignored")
                /\ UNCHANGED <<ledgerVars, calls, req, form, cabinetVars>>
           ELSE IF societe_id[1] \notin DOMAIN societes
           THEN /\ last' = CessionOutcome("not_found")
                /\ UNCHANGED <<ledgerVars, calls, req, form, cabinetVars>>
           ELSE /\ req' = [req EXCEPT ![c] =
                              [phase |-> "cession_added", societe_id |-> societe_id[1],
                               cedant |-> cedant, cessionnaire |-> cessionnaire,
                               parts_count |-> parts_count[1]]]
                /\ last' = CessionOutcome("found")
                /\ UNCHANGED <<ledgerVars, calls, form, cabinetVars>>

\* apply_to_distribution with parts > 0 reads societe.associates: the load
\* of the collection first flushes the session, which INSERTs the cession
\* (the transaction begins and takes the write lock), then SELECTs the
\* associates whose societe_id is the societe's, the societe itself being
\* there or not by now.
cessions_create_flush(c) ==
    /\ req[c].phase = "cession_added"
    /\ req[c].parts_count > 0
    /\ IF CabinetLocked(c)
       THEN /\ req' = [req EXCEPT ![c] = Idle]
            /\ last' = CessionOutcome("locked")
            /\ UNCHANGED <<ledgerVars, calls, form, cabinetVars>>
       ELSE LET ids == AssociateIds(associates, req[c].societe_id)
                list == ListOf(associates, req[c].societe_id)
                after == apply_to_distribution(list, req[c].cedant,
                                               req[c].cessionnaire, req[c].parts_count)
            IN  /\ NewId(DOMAIN cessions) <= MaxCessions
                /\ NewId(DOMAIN associates) + (Len(after) - Len(list)) - 1
                      <= MaxAssociates
                /\ req' = [req EXCEPT ![c] =
                              [phase |-> "cession_flushed",
                               societe_id |-> req[c].societe_id,
                               cedant |-> req[c].cedant,
                               cessionnaire |-> req[c].cessionnaire,
                               parts_count |-> req[c].parts_count,
                               ids |-> ids, list |-> list]]
                /\ last' = CessionOutcome("flushed")
                /\ UNCHANGED <<ledgerVars, calls, form, cabinetVars>>

\* db.session.commit().  With parts <= 0 apply_to_distribution returned at
\* once and the commit INSERTs the cession.  With parts > 0 the commit
\* flushes the collection apply_to_distribution changed and ends the
\* transaction that holds the cession.
cessions_create_commit(c) ==
    /\ req[c].phase \in {"cession_added", "cession_flushed"}
    /\ req[c].phase = "cession_added" => req[c].parts_count <= 0
    /\ req' = [req EXCEPT ![c] = Idle]
    /\ IF req[c].phase = "cession_added" /\ CabinetLocked(c)
       THEN /\ last' = CessionOutcome("locked")
            /\ UNCHANGED <<ledgerVars, calls, form, cabinetVars>>
       ELSE /\ req[c].phase = "cession_added" => NewId(DOMAIN cessions) <= MaxCessions
            /\ cessions' = cessions @@
                   (NewId(DOMAIN cessions) :>
                       [societe_id |-> req[c].societe_id, cedant |-> req[c].cedant,
                        cessionnaire |-> req[c].cessionnaire,
                        parts_count |-> req[c].parts_count])
            /\ associates' =
                   IF req[c].phase = "cession_added"
                   THEN associates
                   ELSE Flushed(associates, req[c].societe_id, req[c].ids,
                                apply_to_distribution(req[c].list, req[c].cedant,
                                                      req[c].cessionnaire,
                                                      req[c].parts_count))
            /\ last' = CessionOutcome("created")
            /\ UNCHANGED <<ledgerVars, calls, form, cabinets, societes>>

----------------------------------------------------------------------------
(* SpecApply: apply_to_distribution called once, on every distribution of  *)
(* up to three associates the application can hold and with every call.    *)

PartsArgs == {PartsTable[s] : s \in DOMAIN PartsTable}

\* The associates lists a societe can hold: associates are created by
\* apply_to_distribution only, which never repeats a name, never leaves a
\* negative count and always leaves its cessionnaire with parts.
Distributions ==
    {<<>>} \cup
    {d \in UNION {[1 .. n -> [name : Names, parts_count : {0, 30, 70, 100}]] :
                      n \in 1 .. Cardinality(Names)} :
        /\ \A i, j \in DOMAIN d : d[i].name = d[j].name => i = j
        /\ total_parts(d) > 0}

\* The societes table after one POST /societes/create that names no cabinet.
OneSociete == <<[name |-> "S", cabinet_id |-> Absent]>>

ApplyCalls ==
    [societe : {1}, cedant : Names, cessionnaire : Names, parts : PartsArgs]

InitApply ==
    /\ InitLedger
    /\ cabinets = <<>>
    /\ societes = OneSociete
    /\ associates \in {Flushed(<<>>, 1, <<>>, d) : d \in Distributions}
    /\ cessions = <<>>
    /\ last = NoOutcome
    /\ calls = <<>>
    /\ req = <<>>
    /\ form \in {Given(c) : c \in ApplyCalls}

\* Cession.apply_to_distribution(societe, cedant, cessionnaire, parts): the
\* call received is made, once; `before` keeps the list it was made on.
apply_call ==
    /\ form # Absent
    /\ last = NoOutcome
    /\ associates' =
           Flushed(associates, form[1].societe,
                   AssociateIds(associates, form[1].societe),
                   apply_to_distribution(ListOf(associates, form[1].societe),
                                         form[1].cedant, form[1].cessionnaire,
                                         form[1].parts))
    /\ last' = [op |-> "apply_to_distribution", status |-> "returned",
                before |-> ListOf(associates, form[1].societe)]
    /\ UNCHANGED <<ledgerVars, calls, req, form, cabinets, societes, cessions>>

NextApply == apply_call

SpecApply == InitApply /\ [][NextApply]_vars

\* The parts an associate list gives to a name: those of the associate of
\* that name, 0 when there is none.
Held(list, name) ==
    IF name \in NamesOf(list) THEN list[FirstNamed(list, name)].parts_count ELSE 0

Applied == last.op = "apply_to_distribution"

\* C6: a call of apply_to_distribution leaves the sum of parts_count over the
\* associates of the societe as it was, and from {A:70, B:30} the transfer of
\* 150 parts from A to B leaves {A:0, B:100}.
C6_TotalPreserved ==
    [][/\ total_parts(ListOf(associates', 1)) = total_parts(ListOf(associates, 1))
       /\ (/\ ListOf(associates, 1) = <<Associate("A", 70), Associate("B", 30)>>
           /\ form = Given([societe |-> 1, cedant |-> "A", cessionnaire |-> "B",
                            parts |-> 150]))
          => ListOf(associates', 1) = <<Associate("A", 0), Associate("B", 100)>>]_vars

\* C7: a call with parts > 0 and two different names leaves the cedant with
\* max(0, old - parts) and the cessionnaire with old + parts, old being 0 for
\* a name that had no associate; the list is the old one, each associate in
\* its place, followed by one new associate for each of the two names that
\* had none, and every associate of another name is as it was; the call
\* returns whatever the cedant held.
C7_TransferApplied ==
    [][(/\ form # Absent
        /\ form[1].parts > 0
        /\ form[1].cedant # form[1].cessionnaire)
       => LET old == ListOf(associates, 1)
              new == ListOf(associates', 1)
              cedant == form[1].cedant
              cessionnaire == form[1].cessionnaire
              parts == form[1].parts
              created == {cedant, cessionnaire} \ NamesOf(old)
          IN  /\ last'.status = "returned"
              /\ Held(new, cedant) = Max(0, Held(old, cedant) - parts)
              /\ Held(new, cessionnaire) = Held(old, cessionnaire) + parts
              /\ Len(new) = Len(old) + Cardinality(created)
              /\ NamesOf(new) = NamesOf(old) \cup created
              /\ \A i \in DOMAIN old :
                    /\ new[i].name = old[i].name
                    /\ old[i].name \notin {cedant, cessionnaire} => new[i] = old[i]]_vars

\* An over-transfer from a cedant that held parts to a cessionnaire that had
\* no associate, in a societe with a third associate holding parts.
C7_Witness ==
    /\ Applied
    /\ form[1].parts = 150
    /\ form[1].cedant # form[1].cessionnaire
    /\ Held(last.before, form[1].cedant) = 70
    /\ form[1].cessionnaire \notin NamesOf(last.before)
    /\ Held(ListOf(associates, 1), form[1].cedant) = 0
    /\ Held(ListOf(associates, 1), form[1].cessionnaire) = 150
    /\ \E n \in Names \ {form[1].cedant, form[1].cessionnaire} :
          Held(ListOf(associates, 1), n) = 30

\* C9: a call with parts <= 0 leaves the associates list as it was: no
\* associate is added and no parts_count changes.
C9_NonPositiveIsNoOp ==
    [][(form # Absent /\ form[1].parts <= 0) => associates' = associates]_vars

\* A call with parts = 0 naming two parties that have no associate, made on
\* a societe that has one.
C9_Witness ==
    /\ Applied
    /\ form[1].parts = 0
    /\ form[1].cedant # form[1].cessionnaire
    /\ ListOf(associates, 1) # <<>>
    /\ form[1].cedant \notin NamesOf(ListOf(associates, 1))
    /\ form[1].cessionnaire \notin NamesOf(ListOf(associates, 1))
    /\ ListOf(associates, 1) = last.before

----------------------------------------------------------------------------
(* SpecCession: cabinets and societes created, cessions created by one     *)
(* client and cabinets deleted by another, the round trips of the two      *)
(* clients in any order.                                                   *)

\* The forms POST /cessions/create receives, as <<societe_id, cedant,
\* cessionnaire, parts_count>>: a cession from a cedant the societe may not
\* have yet, one of more parts back from its cessionnaire, one of a party to
\* itself, one in societe 2, one of a negative number of parts, and forms
\* with a field that is zero, empty or not a number.
CessionForms ==
    {<<"1", "A", "B", "30">>, <<"1", "B", "A", "150">>, <<"1", "A", "A", "30">>,
     <<"2", "A", "B", "30">>, <<"1", "A", "B", "-5">>, <<"1", "A", "B", "0">>,
     <<"x", "A", "B", "30">>, <<"1", "", "B", "30">>, <<"1", "A", "", "30">>,
     <<"1", "A", "B", "x">>}

\* Client 1 creates the cessions and client 2 deletes the cabinets.  The
\* names are "K" and "S" or empty, the cabinet_id field of a societe is
\* empty, cabinet 1 or no number, the cabinet deleted is 1 or 2.
NextCession ==
    \/ \E name \in {"", "K"} : cabinets_create(name)
    \/ \E name \in {"", "S"}, f \in {"", "1", "x"} : societes_create(name, f)
    \/ \E cabinet_id \in {1, 2} : cabinets_delete_get(2, cabinet_id)
    \/ cabinets_delete_societes(2)
    \/ cabinets_delete_associates(2)
    \/ cabinets_delete_cessions(2)
    \/ cabinets_delete_commit(2)
    \/ \E f \in CessionForms : cessions_create_get(1, f[1], f[2], f[3], f[4])
    \/ cessions_create_flush(1)
    \/ cessions_create_commit(1)

SpecCession == Init /\ [][NextCession]_vars

\* C8: every associate of every societe holds zero parts or more.
C8_NoNegativeParts ==
    \A i \in DOMAIN associates : associates[i].parts_count >= 0

\* Two cessions on societe 1: the first to a cessionnaire from a cedant
\* created by it, the second an over-transfer, from that cessionnaire back to
\* the cedant, of more than it received.
C8_Witness ==
    /\ DOMAIN cessions = {1, 2}
    /\ cessions[1].societe_id = 1
    /\ cessions[2].societe_id = 1
    /\ cessions[1].parts_count > 0
    /\ cessions[1].cedant # cessions[1].cessionnaire
    /\ cessions[2].cedant = cessions[1].cessionnaire
    /\ cessions[2].cessionnaire = cessions[1].cedant
    /\ cessions[2].parts_count > cessions[1].parts_count
    /\ Held(ListOf(associates, 1), cessions[2].cedant) = 0
    /\ Held(ListOf(associates, 1), cessions[2].cessionnaire) = cessions[2].parts_count

----------------------------------------------------------------------------
(* SpecRace: entry_create requests of two clients, each in a session of its *)
(* own: the session loads the journal row when the handler starts and       *)
(* writes the row it holds when the handler commits.                        *)

\* entry_create from get_or_404 to the last line built: the session works on
\* the journal row it loaded and nothing is written yet.
entry_create_begin(c, journal_id, entry_date, drafts) ==
    /\ req[c].phase # "open"
    /\ IF journal_id \notin DOMAIN journals
       THEN /\ last' = Outcome("entry_create", "not_found", "", 0)
            /\ UNCHANGED <<ledgerVars, calls, req, form, cabinetVars>>
       ELSE LET row == journals[journal_id]
                r == EntryRequest(journal_id, row, entry_date, drafts, today)
            IN  /\ req' = [req EXCEPT ![c] =
                              [phase |-> "open", journal_id |-> journal_id,
                               read |-> row.next_number, r |-> r]]
                /\ handed' = Note(handed, row.code, r.number)
                /\ UNCHANGED <<accounts, journals, entries, numbering, invoices, today, kept,
                               last, calls, form, cabinetVars>>

\* entry_create from is_balanced to the response: commit or rollback (the
\* session is discarded as well when a form value did not parse).
entry_create_finish(c) ==
    /\ req[c].phase = "open"
    /\ LET r == req[c].r
           j == req[c].journal_id
       IN  /\ r.commit => Len(entries) < MaxEntries
           /\ journals' = IF r.commit
                          THEN [journals EXCEPT ![j] = Commit(@, r.row)]
                          ELSE journals
           /\ entries' = IF r.commit THEN Append(entries, r.entry) ELSE entries
           /\ kept' = IF r.commit THEN Note(kept, journals[j].code, r.number) ELSE kept
           /\ req' = [req EXCEPT ![c] =
                         [phase |-> IF r.commit THEN "committed" ELSE "discarded",
                          journal_id |-> j, read |-> req[c].read,
                          entry_id |-> IF r.commit THEN Len(entries) + 1 ELSE 0]]
           /\ last' = Outcome("entry_create", r.status, journals[j].code, r.number)
           /\ UNCHANGED <<accounts, numbering, invoices, today, handed, calls, form,
                          cabinetVars>>

\* The forms: a line that balances itself and a one-sided line.
NextRace ==
    \/ \E c \in Clients, j \in JournalArgs,
          l \in {<<[account |-> "1", debit |-> "0.01", credit |-> "0,01"]>>,
                 <<[account |-> "1", debit |-> "0.02", credit |-> ""]>>} :
          entry_create_begin(c, j, Given("2024-12-31"), l)
    \/ \E c \in Clients : entry_create_finish(c)

SpecRace == Init /\ [][NextRace]_vars

\* C4: two requests on one journal that both read next_number = N and both
\* committed left the counter at N + 1, and the two entries they stored
\* carry the same reference, that of number N.
C4_BothIssuedN ==
    \A c, d \in Clients :
        (/\ c # d
         /\ req[c].phase = "committed"
         /\ req[d].phase = "committed"
         /\ req[c].journal_id = req[d].journal_id
         /\ req[c].read = req[d].read)
        => /\ journals[req[c].journal_id].next_number = req[c].read + 1
           /\ entries[req[c].entry_id].reference = entries[req[d].entry_id].reference
           /\ entries[req[c].entry_id].reference =
                 journals[req[c].journal_id].prefix \o "2024-" \o Format04d(req[c].read)

\* Two stored entries of journal ACH carrying the same reference.
C4_Witness ==
    /\ Len(entries) = 2
    /\ entries[1].journal_id = 1
    /\ entries[2].journal_id = 1
    /\ entries[1].reference = "ACH-2024-0001"
    /\ entries[2].reference = "ACH-2024-0001"
    /\ journals[1].next_number = 2

----------------------------------------------------------------------------
(* app/routes.py: the reports                                              *)

\* _date_range_from_request: the start and end query arguments, each parsed
\* when it is given and not empty; a malformed one raises.
_date_range_from_request(start, end) ==
    LET given(a) == a # Absent /\ a # Given("")
        s == IF given(start) THEN _parse_date(start[1]) ELSE [ok |-> TRUE, date |-> 0]
        e == IF given(end) THEN _parse_date(end[1]) ELSE [ok |-> TRUE, date |-> 0]
    IN  [raised |-> ~s.ok \/ ~e.ok,
         start_d |-> IF given(start) THEN Given(s.date) ELSE Absent,
         end_d |-> IF given(end) THEN Given(e.date) ELSE Absent]

\* Variant: the end of the range is excluded.
Selected_before_end(es, start_d, end_d) ==
    {p \in UNION {{<<i, k>> : k \in DOMAIN es[i].lines} : i \in DOMAIN es} :
        /\ es[p[1]].validated
        /\ start_d # Absent => es[p[1]].entry_date >= start_d[1]
        /\ end_d # Absent => es[p[1]].entry_date < end_d[1]}

\* Variant: the filter on Entry.validated is left out.
Selected_any(es, start_d, end_d) ==
    {p \in UNION {{<<i, k>> : k \in DOMAIN es[i].lines} : i \in DOMAIN es} :
        /\ start_d # Absent => es[p[1]].entry_date >= start_d[1]
        /\ end_d # Absent => es[p[1]].entry_date <= end_d[1]}

\* The entry lines a report query reads, as <<entry id, position of the line
\* in its entry>>: EntryLine joined to Entry, filtered on Entry.validated and
\* on the date range (the same filters in the four reports: routes.py
\* 301-306, 369-374, 401-406 and 433-438).
Selected(es, start_d, end_d) ==
    {p \in UNION {{<<i, k>> : k \in DOMAIN es[i].lines} : i \in DOMAIN es} :
        /\ es[p[1]].validated
        /\ start_d # Absent => es[p[1]].entry_date >= start_d[1]
        /\ end_d # Absent => es[p[1]].entry_date <= end_d[1]}

LineAt(es, p) == es[p[1]].lines[p[2]]

\* coalesce(sum(EntryLine.debit), 0) and coalesce(sum(EntryLine.credit), 0)
\* over a set of lines, as the query returns them: the database adds up the
\* floats its rows hold, and the sum is read as a Numeric(14, 2) is.  The sum
\* of several amounts that is halfway between two hundredths is read on the
\* side the sum of their floats lies on, which the model does not tell: no
\* sum of the model is one.
SumOf(es, S, column) ==
    LET amount(p) == IF column = "debit" THEN LineAt(es, p).debit
                     ELSE LineAt(es, p).credit
        RECURSIVE total(_)
        total(T) == IF T = {} THEN 0
                    ELSE LET p == CHOOSE q \in T : TRUE
                         IN  amount(p) + total(T \ {p})
    IN  CASE Cardinality({p \in S : amount(p) # 0}) <= 1 -> Numeric_14_2(total(S))
          [] total(S) % 10 # 5 -> Numeric_14_2(total(S))

\* The lines of the selection that join an account, one of `ids`.
OnAccounts(es, S, ids) == {p \in S : LineAt(es, p).account_id \in ids}

\* Account codes are strings of four digits, which order as their numbers.
CodeNumber ==
    ("1111" :> 1111) @@ ("2340" :> 2340) @@ ("3421" :> 3421) @@
    ("4411" :> 4411) @@ ("5141" :> 5141) @@ ("6111" :> 6111) @@
    ("4455" :> 4455) @@ ("7111" :> 7111) @@ ("8600" :> 8600)

\* order_by(Account.code) on a set of accounts: their ids, lowest code first.
RECURSIVE OrderByCode(_)
OrderByCode(ids) ==
    IF ids = {} THEN <<>>
    ELSE LET a == CHOOSE b \in ids :
                      \A c \in ids :
                          CodeNumber[accounts[b].code] <= CodeNumber[accounts[c].code]
         IN  <<a>> \o OrderByCode(ids \ {a})

\* order_by(Account.code): the account ids in the order of their codes.
AccountsByCode == OrderByCode(AccountIds)

\* The rows of the trial balance: one for each account, in code order, that
\* has a line in the selection.
RECURSIVE TrialRows(_, _, _)
TrialRows(es, S, ids) ==
    IF ids = <<>> THEN <<>>
    ELSE LET a == Head(ids)
             mine == OnAccounts(es, S, {a})
             debit == SumOf(es, mine, "debit")
             credit == SumOf(es, mine, "credit")
             rest == TrialRows(es, S, Tail(ids))
         IN  IF mine = {} THEN rest
             ELSE <<[code |-> accounts[a].code, debit |-> debit, credit |-> credit,
                     balance |-> round_2(debit, credit)]>> \o rest

RECURSIVE SumRows(_, _)
SumRows(rows, column) ==
    IF rows = <<>> THEN 0
    ELSE (IF column = "debit" THEN Head(rows).debit ELSE Head(rows).credit)
         + SumRows(Tail(rows), column)

\* The page of report_trial_balance.
TrialBalance(es, start_d, end_d) ==
    LET rows == TrialRows(es, Selected(es, start_d, end_d), AccountsByCode)
    IN  [rows |-> rows,
         totals |-> [debit |-> round_2(SumRows(rows, "debit"), 0),
                     credit |-> round_2(SumRows(rows, "credit"), 0)]]

\* The place of a journal's prefix in the order of strings: "ACH-" < "OD-" <
\* "TRS-" < "VTE-".
PrefixRank == (1 :> 1) @@ (4 :> 2) @@ (3 :> 3) @@ (2 :> 4)

\* A reference the model's journals issue, taken apart: two references order
\* as strings by prefix (the prefixes differ in their first character), then
\* by year, then by number.
ReferenceKey(reference) ==
    CHOOSE t \in [j : JournalIds, y : {year(d) : d \in Dates},
                  n : 1 .. MaxEntries] :
        reference = DefaultJournals[t.j].prefix \o ToString(t.y) \o "-" \o Format04d(t.n)

\* order_by(Entry.entry_date, Entry.reference): the line at p does not come
\* after the line at q.
NotAfter(es, p, q) ==
    LET e == es[p[1]]
        f == es[q[1]]
        k == ReferenceKey(e.reference)
        l == ReferenceKey(f.reference)
    IN  \/ e.entry_date < f.entry_date
        \/ /\ e.entry_date = f.entry_date
           /\ \/ PrefixRank[k.j] < PrefixRank[l.j]
              \/ k.j = l.j /\ k.y < l.y
              \/ k.j = l.j /\ k.y = l.y /\ k.n <= l.n

LedgerRow(es, p) ==
    [date |-> es[p[1]].entry_date, reference |-> es[p[1]].reference,
     debit |-> Numeric_14_2(LineAt(es, p).debit),
     credit |-> Numeric_14_2(LineAt(es, p).credit)]

\* The lists q.all() can return for one account: the selected lines of the
\* account in an order that order_by allows (lines of equal date and
\* reference come in an order the database chooses).
LedgerLists(es, S, a) ==
    LET mine == OnAccounts(es, S, {a})
        orders == {f \in [1 .. Cardinality(mine) -> mine] :
                      /\ \A i, j \in DOMAIN f : f[i] = f[j] => i = j
                      /\ \A i, j \in DOMAIN f : i < j => NotAfter(es, f[i], f[j])}
    IN  {[i \in DOMAIN f |-> LedgerRow(es, f[i])] : f \in orders}

\* Variant: class 3 is left out of whatever classes are asked for.
sum_for_classes_but_3(es, S, classes) ==
    LET mine == OnAccounts(es, S, {a \in AccountIds :
                                      accounts[a].class_code \in classes \ {"3"}})
    IN  round_2(SumOf(es, mine, "debit"), SumOf(es, mine, "credit"))

\* sum_for_classes of report_balance_sheet, one SELECT: round(debit -
\* credit, 2) of the two sums over the selected lines that join an account
\* of one of the classes.
sum_for_classes(es, S, classes) ==
    LET mine == OnAccounts(es, S, {a \in AccountIds : accounts[a].class_code \in classes})
    IN  round_2(SumOf(es, mine, "debit"), SumOf(es, mine, "credit"))

\* Variant: the lines on accounts of class 8 are counted with the assets.
Assets_with_class_8(es, start_d, end_d) ==
    sum_for_classes(es, Selected(es, start_d, end_d), {"1", "2", "3", "5", "8"})

\* The figures of report_balance_sheet, each the result of one SELECT.
Assets(es, start_d, end_d) ==
    sum_for_classes(es, Selected(es, start_d, end_d), {"1", "2", "3", "5"})

LiabilitiesEquity(es, start_d, end_d) ==
    0 - sum_for_classes(es, Selected(es, start_d, end_d), {"4"})

\* The figures of report_income_statement, whose sum_for_classes is credit -
\* debit.
Revenue(es, start_d, end_d) ==
    0 - sum_for_classes(es, Selected(es, start_d, end_d), {"7"})

Expenses(es, start_d, end_d) ==
    0 - sum_for_classes(es, Selected(es, start_d, end_d), {"6"})

\* What a step of a report request leaves in `last`: the range of the
\* request, the query the step has run and its result, and the page as far
\* as the request has it.  The status is "querying" while queries remain
\* and "rendered" when the step ends the request with its response.
Step(op, status, start_d, end_d, query, result, page) ==
    [op |-> op, status |-> status, scope |-> "", number |-> 0,
     start |-> start_d, end |-> end_d, query |-> query, result |-> result,
     page |-> page]

\* GET /reports/trial-balance: one SELECT.
report_trial_balance(start, end) ==
    LET range == _date_range_from_request(start, end)
        page == TrialBalance(entries, range.start_d, range.end_d)
    IN  /\ last' = IF range.raised
                   THEN Outcome("report_trial_balance", "invalid_input", "", 0)
                   ELSE Step("report_trial_balance", "rendered", range.start_d,
                             range.end_d, "rows", page, page)
        /\ UNCHANGED <<ledgerVars, calls, req, form, cabinetVars>>

\* GET /reports/ledger up to Account.query.order_by(Account.code).all(): the
\* accounts there are, in code order.  Without an account the page is
\* rendered at once.
report_ledger_accounts(c, start, end) ==
    /\ Free(c)
    /\ LET range == _date_range_from_request(start, end)
           none == [a \in {} |-> <<>>]
       IN  IF range.raised
           THEN /\ last' = Outcome("report_ledger", "invalid_input", "", 0)
                /\ UNCHANGED <<ledgerVars, calls, req, form, cabinetVars>>
           ELSE /\ req' = [req EXCEPT ![c] =
                              IF AccountsByCode = <<>> THEN Idle
                              ELSE [phase |-> "ledger", start_d |-> range.start_d,
                                    end_d |-> range.end_d, todo |-> AccountsByCode,
                                    page |-> none]]
                /\ last' = Step("report_ledger",
                                IF AccountsByCode = <<>> THEN "rendered" ELSE "querying",
                                range.start_d, range.end_d, "accounts", AccountsByCode,
                                none)
                /\ UNCHANGED <<ledgerVars, calls, form, cabinetVars>>

\* The loop of report_ledger, one account at a turn: the SELECT of the
\* lines of the account, of the validated entries of the range as they are
\* by now.  The last turn renders the page.
report_ledger_lines(c) ==
    /\ req[c].phase = "ledger"
    /\ LET a == Head(req[c].todo)
           rest == Tail(req[c].todo)
       IN  \E l \in LedgerLists(entries,
                                Selected(entries, req[c].start_d, req[c].end_d), a) :
              LET page == (accounts[a].code :> l) @@ req[c].page
              IN  /\ req' = [req EXCEPT ![c] =
                                IF rest = <<>> THEN Idle
                                ELSE [req[c] EXCEPT !.todo = rest, !.page = page]]
                  /\ last' = Step("report_ledger",
                                  IF rest = <<>> THEN "rendered" ELSE "querying",
                                  req[c].start_d, req[c].end_d, "lines",
                                  [code |-> accounts[a].code, list |-> l], page)
    /\ UNCHANGED <<ledgerVars, calls, form, cabinetVars>>

\* GET /reports/balance-sheet up to the first sum_for_classes: assets.
report_balance_sheet_assets(c, start, end) ==
    /\ Free(c)
    /\ LET range == _date_range_from_request(start, end)
           assets == Assets(entries, range.start_d, range.end_d)
       IN  IF range.raised
           THEN /\ last' = Outcome("report_balance_sheet", "invalid_input", "", 0)
                /\ UNCHANGED <<ledgerVars, calls, req, form, cabinetVars>>
           ELSE /\ req' = [req EXCEPT ![c] =
                              [phase |-> "balance_sheet", start_d |-> range.start_d,
                               end_d |-> range.end_d, assets |-> assets]]
                /\ last' = Step("report_balance_sheet", "querying", range.start_d,
                                range.end_d, "assets", assets, [assets |-> assets])
                /\ UNCHANGED <<ledgerVars, calls, form, cabinetVars>>

\* The second sum_for_classes of report_balance_sheet, on the tables as they
\* are by now, and the page.
report_balance_sheet_liabilities(c) ==
    /\ req[c].phase = "balance_sheet"
    /\ LET liabilities_equity ==
               LiabilitiesEquity(entries, req[c].start_d, req[c].end_d)
       IN  last' = Step("report_balance_sheet", "rendered", req[c].start_d,
                        req[c].end_d, "liabilities_equity", liabilities_equity,
                        [assets |-> req[c].assets,
                         liabilities_equity |-> liabilities_equity])
    /\ req' = [req EXCEPT ![c] = Idle]
    /\ UNCHANGED <<ledgerVars, calls, form, cabinetVars>>

\* GET /reports/income-statement up to the first sum_for_classes: revenue.
report_income_statement_revenue(c, start, end) ==
    /\ Free(c)
    /\ LET range == _date_range_from_request(start, end)
           revenue == Revenue(entries, range.start_d, range.end_d)
       IN  IF range.raised
           THEN /\ last' = Outcome("report_income_statement", "invalid_input", "", 0)
                /\ UNCHANGED <<ledgerVars, calls, req, form, cabinetVars>>
           ELSE /\ req' = [req EXCEPT ![c] =
                              [phase |-> "income_statement", start_d |-> range.start_d,
                               end_d |-> range.end_d, revenue |-> revenue]]
                /\ last' = Step("report_income_statement", "querying", range.start_d,
                                range.end_d, "revenue", revenue, [revenue |-> revenue])
                /\ UNCHANGED <<ledgerVars, calls, form, cabinetVars>>

\* The second sum_for_classes of report_income_statement, on the tables as
\* they are by now, the result and the page.
report_income_statement_expenses(c) ==
    /\ req[c].phase = "income_statement"
    /\ LET expenses == Expenses(entries, req[c].start_d, req[c].end_d)
       IN  last' = Step("report_income_statement", "rendered", req[c].start_d,
                        req[c].end_d, "expenses", expenses,
                        [revenue |-> req[c].revenue, expenses |-> expenses,
                         result |-> req[c].revenue - expenses])
    /\ req' = [req EXCEPT ![c] = Idle]
    /\ UNCHANGED <<ledgerVars, calls, form, cabinetVars>>

----------------------------------------------------------------------------
(* SpecLedger: the chart seeded and imported, entries of journal ACH       *)
(* created and validated, and the trial balance requested over date        *)
(* ranges, in any order.                                                   *)

\* An expense paid from the bank.
ExpenseDrafts ==
    <<[account |-> "3", debit |-> "0.02", credit |-> ""],
      [account |-> "1", debit |-> "", credit |-> "0,02"]>>

\* A sale cashed with its tax.
SaleDrafts ==
    <<[account |-> "1", debit |-> "0.03", credit |-> "0"],
      [account |-> "4", debit |-> "", credit |-> "0.02"],
      [account |-> "2", debit |-> "", credit |-> "0.01"]>>

\* A purchase over accounts of classes 2, 1 and 3 whose last credit names
\* account id 9, which is an account once the longer chart is imported and
\* no account before.
PurchaseDrafts ==
    <<[account |-> "6", debit |-> "0.02", credit |-> ""],
      [account |-> "8", debit |-> "0.01", credit |-> ""],
      [account |-> "7", debit |-> "", credit |-> "0.01"],
      [account |-> "9", debit |-> "", credit |-> "0.02"]>>

\* The loss of the year carried to the result account, of class 8, against
\* the bank and a supplier.
ResultDrafts ==
    <<[account |-> "5", debit |-> "0.02", credit |-> ""],
      [account |-> "1", debit |-> "", credit |-> "0.01"],
      [account |-> "2", debit |-> "", credit |-> "0,01"]>>

EntryDateFields == {Given("2024-06-30"), Given("2024-12-31")}

\* The file with the account the longer chart has more than the chart.
OneAccountFile == Given([complete |-> TRUE, rows |-> <<LongerChartRows[9]>>])

\* pcm_ma.json: not there, or holding the chart.
PcmFiles == {Absent, Given(ChartRows)}

\* Client 2 seeds and imports the accounts; the files uploaded are the one
\* of one account and one without the required columns; the forms are the
\* expense, the sale, the purchase and one whose sums differ; a range starts on
\* no day, on 2024-12-31 or on no date, and ends on no day, on 2024-06-30 or
\* on 2024-12-31.
NextLedger ==
    \/ \E items \in PcmFiles : seed_pcm_count(2, items)
    \/ seed_pcm_commit(2)
    \/ \E file \in {OneAccountFile, Given([complete |-> FALSE, rows |-> ChartRows])} :
          import_accounts_read(2, file)
    \/ import_accounts_commit(2)
    \/ \E d \in EntryDateFields,
          l \in {ExpenseDrafts, SaleDrafts, PurchaseDrafts,
                 <<[account |-> "1", debit |-> "0.03", credit |-> ""]>>} :
          entry_create(1, d, l)
    \/ \E e \in EntryArgs : entry_validate(e)
    \/ \E s \in {Absent, Given("2024-12-31"), Given("x")},
          e \in {Absent, Given("2024-06-30"), Given("2024-12-31")} :
          report_trial_balance(s, e)

SpecLedger == Init /\ [][NextLedger]_vars

----------------------------------------------------------------------------
(* SpecAccounts: the chart seeded and files imported by two clients at the *)
(* same time, a request served between the queries of the other.           *)

\* The files uploaded: none, one without the required columns, one without
\* a row, two with the first two accounts of the chart in either order, and
\* one that names twice an account the chart has not.
UploadedFiles ==
    {Absent,
     Given([complete |-> FALSE, rows |-> ChartRows]),
     Given([complete |-> TRUE, rows |-> <<>>]),
     Given([complete |-> TRUE, rows |-> <<ChartRows[1], ChartRows[2]>>]),
     Given([complete |-> TRUE, rows |-> <<ChartRows[2], ChartRows[1]>>]),
     Given([complete |-> TRUE, rows |-> <<LongerChartRows[9], LongerChartRows[9]>>])}

NextAccounts ==
    \/ \E c \in Clients, items \in PcmFiles : seed_pcm_count(c, items)
    \/ \E c \in Clients : seed_pcm_commit(c)
    \/ \E c \in Clients, file \in UploadedFiles : import_accounts_read(c, file)
    \/ \E c \in Clients : import_accounts_next(c)
    \/ \E c \in Clients : import_accounts_commit(c)

SpecAccounts == Init /\ [][NextAccounts]_vars

----------------------------------------------------------------------------
(* SpecSheets: the balance sheet and the income statement asked for while  *)
(* the chart is seeded, the account the longer chart has more is imported  *)
(* and entries are created and validated: the requests that write are      *)
(* served between the two queries of a report.                             *)

\* The ranges asked for, as <<start, end>>: none, one that ends before the
\* entries, and one whose start is no date.
SheetRanges ==
    {<<Absent, Absent>>, <<Absent, Given("2024-06-30")>>, <<Given("x"), Absent>>}

NextSheets ==
    \/ seed_pcm_count(2, Given(ChartRows))
    \/ seed_pcm_commit(2)
    \/ import_accounts_read(2, OneAccountFile)
    \/ import_accounts_commit(2)
    \/ \E l \in {ExpenseDrafts, SaleDrafts, PurchaseDrafts, ResultDrafts} :
          entry_create(1, Given("2024-12-31"), l)
    \/ \E e \in EntryArgs : entry_validate(e)
    \/ \E r \in SheetRanges : report_balance_sheet_assets(1, r[1], r[2])
    \/ report_balance_sheet_liabilities(1)
    \/ \E r \in SheetRanges : report_income_statement_revenue(1, r[1], r[2])
    \/ report_income_statement_expenses(1)

SpecSheets == Init /\ [][NextSheets]_vars

----------------------------------------------------------------------------
(* SpecPages: the four reports asked for over date ranges while entries    *)
(* are created and validated, on a chart of four accounts: the requests    *)
(* for entries are served between the queries of a report.                 *)

\* The accounts after the import of a file that holds the first four rows
\* of the chart.
ShortChartRows == SubSeq(ChartRows, 1, 4)

InitPages ==
    /\ accounts = ShortChartRows
    /\ journals = DefaultJournals
    /\ entries = <<>>
    /\ numbering = [s \in {} |-> [prefix |-> "", next_number |-> 1]]
    /\ invoices = <<>>
    /\ today = 20241231
    /\ handed = [s \in Scopes |-> {}]
    /\ kept = [s \in Scopes |-> {}]
    /\ InitCabinet
    /\ InitRest

\* The ranges asked for, as <<start, end>>: none, the one day 2024-12-31,
\* all days up to 2024-06-30, and one whose start is no date.
PageRanges ==
    {<<Absent, Absent>>, <<Given("2024-12-31"), Given("2024-12-31")>>,
     <<Absent, Given("2024-06-30")>>, <<Given("x"), Absent>>}

NextPages ==
    \/ \E d \in EntryDateFields, l \in {ExpenseDrafts, SaleDrafts} :
          entry_create(1, d, l)
    \/ \E e \in EntryArgs : entry_validate(e)
    \/ \E r \in PageRanges : report_trial_balance(r[1], r[2])
    \/ \E r \in PageRanges : report_ledger_accounts(1, r[1], r[2])
    \/ report_ledger_lines(1)
    \/ \E r \in PageRanges : report_balance_sheet_assets(1, r[1], r[2])
    \/ report_balance_sheet_liabilities(1)
    \/ \E r \in PageRanges : report_income_statement_revenue(1, r[1], r[2])
    \/ report_income_statement_expenses(1)

SpecPages == InitPages /\ [][NextPages]_vars


\* The entries table without the entries that are not validated.
RECURSIVE WithoutUnvalidated(_)
WithoutUnvalidated(es) ==
    IF es = <<>> THEN <<>>
    ELSE IF Head(es).validated
         THEN <<Head(es)>> \o WithoutUnvalidated(Tail(es))
         ELSE WithoutUnvalidated(Tail(es))

\* The step before ran query `q` of report `op`.
Asked(op, q) ==
    /\ last.op = op
    /\ last.status \in {"querying", "rendered"}
    /\ last.query = q

\* The account whose code is `code`.
AccountOf(code) == CHOOSE a \in AccountIds : accounts[a].code = code

\* C10: what a query of a report returns, for whatever date range, is what
\* the same query returns when the entries with validated = false and their
\* lines are taken out of the tables, and it is what the page shows: rows
\* and totals of the trial balance, the list of an account of the ledger,
\* the sums of the balance sheet and of the income statement owe nothing to
\* them.
C10_UnvalidatedContributeNothing ==
    LET es == WithoutUnvalidated(entries)
    IN  /\ Asked("report_trial_balance", "rows")
              => /\ last.result = TrialBalance(es, last.start, last.end)
                 /\ last.page = last.result
        /\ Asked("report_ledger", "lines")
              => /\ last.result.list \in
                        LedgerLists(es, Selected(es, last.start, last.end),
                                    AccountOf(last.result.code))
                 /\ last.page[last.result.code] = last.result.list
        /\ Asked("report_balance_sheet", "assets")
              => /\ last.result = Assets(es, last.start, last.end)
                 /\ last.page.assets = last.result
        /\ Asked("report_balance_sheet", "liabilities_equity")
              => /\ last.result = LiabilitiesEquity(es, last.start, last.end)
                 /\ last.page.liabilities_equity = last.result
        /\ Asked("report_income_statement", "revenue")
              => /\ last.result = Revenue(es, last.start, last.end)
                 /\ last.page.revenue = last.result
        /\ Asked("report_income_statement", "expenses")
              => /\ last.result = Expenses(es, last.start, last.end)
                 /\ last.page.expenses = last.result

\* A trial balance without a range on a validated entry (the expense)
\* and an entry not validated (the sale): the rows are the two accounts of
\* the expense, and the accounts only the sale touches have none.
C10_Witness ==
    /\ last.op = "report_trial_balance"
    /\ last.status = "rendered"
    /\ last.start = Absent
    /\ last.end = Absent
    /\ Len(entries) = 2
    /\ entries[1].validated
    /\ ~entries[2].validated
    /\ Len(entries[2].lines) = 3
    /\ entries[2].entry_date = 20240630
    /\ last.page.rows = <<[code |-> "5141", debit |-> 0, credit |-> 20, balance |-> -20],
                          [code |-> "6111", debit |-> 20, credit |-> 0, balance |-> 20]>>
    /\ last.page.totals = [debit |-> 20, credit |-> 20]

\* The report of the last request was rendered by `op`.
Shows(op) == last.op = op /\ last.status = "rendered"

\* Entry e is validated and dated within the range of the report rendered.
Included(e) ==
    /\ e.validated
    /\ last.start # Absent => last.start[1] <= e.entry_date
    /\ last.end # Absent => e.entry_date <= last.end[1]

\* The lines of the included entries, entry after entry.
RECURSIVE IncludedLines(_)
IncludedLines(es) ==
    IF es = <<>> THEN <<>>
    ELSE (IF Included(Head(es)) THEN Head(es).lines ELSE <<>>)
         \o IncludedLines(Tail(es))

RECURSIVE LinesOn(_, _)
LinesOn(lines, ids) ==
    IF lines = <<>> THEN <<>>
    ELSE (IF Head(lines).account_id \in ids THEN <<Head(lines)>> ELSE <<>>)
         \o LinesOn(Tail(lines), ids)

\* C11: each row of the trial balance carries, for one account, the sum of
\* the debits and the sum of the credits of the lines of the included
\* entries, and when every included entry is balanced the grand total of the
\* debits equals the grand total of the credits.
C11_TrialBalanceSums ==
    Shows("report_trial_balance") =>
        /\ \A i \in DOMAIN last.page.rows :
              \E a \in AccountIds :
                  LET mine == LinesOn(IncludedLines(entries), {a})
                  IN  /\ last.page.rows[i].code = accounts[a].code
                      /\ last.page.rows[i].debit = SumDebit(mine)
                      /\ last.page.rows[i].credit = SumCredit(mine)
        /\ (\A i \in DOMAIN entries :
               Included(entries[i]) => is_balanced(entries[i].lines))
           => last.page.totals.debit = last.page.totals.credit

\* The rows alone: C11 without the equality of the grand totals.
C11_RowsAreAccountSums ==
    Shows("report_trial_balance") =>
        \A a \in AccountIds :
            LET mine == LinesOn(IncludedLines(entries), {a})
                rows == {i \in DOMAIN last.page.rows :
                            last.page.rows[i].code = accounts[a].code}
            IN  /\ Cardinality(rows) = IF mine = <<>> THEN 0 ELSE 1
                /\ \A i \in rows :
                      /\ last.page.rows[i].debit = SumDebit(mine)
                      /\ last.page.rows[i].credit = SumCredit(mine)

\* The entries dated from start to end, both days included; an absent start
\* or end leaves that side open.
RECURSIVE DatedWithin(_, _, _)
DatedWithin(es, start, end) ==
    IF es = <<>> THEN <<>>
    ELSE LET e == Head(es)
         IN  (IF /\ start # Absent => start[1] <= e.entry_date
                 /\ end # Absent => e.entry_date <= end[1]
              THEN <<e>> ELSE <<>>)
             \o DatedWithin(Tail(es), start, end)

\* C12: the trial balance rendered for a range, and the list the ledger
\* reads for an account, are those of the entries with start <= entry_date
\* <= end, read without a range: a
\* validated entry dated exactly start or exactly end is in, one dated
\* outside is out, and an absent start or end bounds nothing.
C12_RangeIsInclusive ==
    LET es == DatedWithin(entries, last.start, last.end)
    IN  /\ Asked("report_trial_balance", "rows")
              => last.page = TrialBalance(es, Absent, Absent)
        /\ Asked("report_ledger", "lines")
              => /\ last.result.list \in
                        LedgerLists(es, Selected(es, Absent, Absent),
                                    AccountOf(last.result.code))
                 /\ last.page[last.result.code] = last.result.list

\* A ledger for the range from 2024-12-31 to 2024-12-31 on two validated
\* entries, the sale dated that day and the expense dated 2024-06-30: the
\* bank account lists the line of the sale and not that of the expense.
C12_Witness ==
    /\ Shows("report_ledger")
    /\ last.start = Given(20241231)
    /\ last.end = Given(20241231)
    /\ Len(entries) = 2
    /\ entries[1].validated /\ entries[1].entry_date = 20240630
    /\ entries[2].validated /\ entries[2].entry_date = 20241231
    /\ Len(entries[1].lines) = 2
    /\ entries[1].lines[1].account_id = 3
    /\ Len(entries[2].lines) = 3
    /\ Len(accounts) = 4
    /\ last.page["5141"] = <<[date |-> 20241231, reference |-> "ACH-2024-0002",
                              debit |-> 30, credit |-> 0]>>
    /\ last.page["6111"] = <<>>

----------------------------------------------------------------------------
(* Claims on rejected requests, checked on Spec.                           *)

\* C13: a request that ends on a malformed date or amount leaves the tables
\* as they were before it: the journals and their counters, the entries,
\* the Numbering rows and their counters, the invoices.  For an
\* invoice_create that has been through _next_number, the tables before it
\* had the counter of its scope at the number it drew, or no row of its
\* scope when its query found none.
C13_RejectedBeforeMutation ==
    [][/\ last'.status = "invalid_input"
          => UNCHANGED <<accounts, journals, entries, numbering, invoices>>
       /\ \A c \in Clients :
             (/\ req[c].phase = "numbered"
              /\ req'[c].phase = "failed"
              /\ req'[c].status = "invalid_input")
             => IF req[c].found
                THEN numbering'[req[c].scope].next_number = req[c].drawn
                ELSE req[c].scope \notin DOMAIN numbering']_vars

\* The part of C13 on entry_create: rejected for a malformed date or amount,
\* it leaves the tables as they were.
C13_EntryCreateLeavesNoTrace ==
    [][(last'.status = "invalid_input" /\ last'.op = "entry_create")
          => UNCHANGED <<accounts, journals, entries, numbering, invoices>>]_vars

\* C14: every stored entry owns one or more lines.
C14_EntriesOwnLines ==
    \A i \in DOMAIN entries : entries[i].lines # <<>>

----------------------------------------------------------------------------
(* Claims on the income statement and the balance sheet, on SpecSheets.    *)

\* The lines of the included entries on accounts of the given classes.
ClassLines(classes) ==
    LinesOn(IncludedLines(entries),
            {a \in AccountIds : accounts[a].class_code \in classes})

\* Credit minus debit, summed over lines.
CreditBalance(lines) == SumCredit(lines) - SumDebit(lines)

\* C15: revenue is the sum of credit - debit over the included class-7
\* lines, expenses the same sum over the class-6 lines, result is revenue -
\* expenses, and class-6 debits without a class-6 credit give a positive
\* expenses figure.
C15_IncomeStatement ==
    /\ Asked("report_income_statement", "revenue")
          => last.page.revenue = CreditBalance(ClassLines({"7"}))
    /\ Asked("report_income_statement", "expenses")
          => /\ last.page.expenses = CreditBalance(ClassLines({"6"}))
             /\ last.page.result = last.page.revenue - last.page.expenses
             /\ (SumDebit(ClassLines({"6"})) > 0 /\ SumCredit(ClassLines({"6"})) = 0)
                   => last.page.expenses > 0

\* The figures of C15 without the sign of expenses.
C15_FiguresAsComputed ==
    /\ Asked("report_income_statement", "revenue")
          => last.page.revenue = CreditBalance(ClassLines({"7"}))
    /\ Asked("report_income_statement", "expenses")
          => /\ last.page.expenses = CreditBalance(ClassLines({"6"}))
             /\ last.page.result = last.page.revenue - last.page.expenses

\* C16: assets is the sum of debit - credit over the included lines on
\* accounts of classes 1, 2, 3 and 5, liabilities_equity is minus that sum
\* over the lines on accounts of class 4; lines on accounts of classes 6, 7
\* and 8 enter neither figure.
C16_BalanceSheet ==
    /\ Asked("report_balance_sheet", "assets")
          => last.page.assets = 0 - CreditBalance(ClassLines({"1", "2", "3", "5"}))
    /\ Asked("report_balance_sheet", "liabilities_equity")
          => last.page.liabilities_equity = CreditBalance(ClassLines({"4"}))

\* A balance sheet over two validated entries: the sale (class 5 debit
\* 0.03, class 7 credit 0.02, class 4 credit 0.01) and the result carried
\* (class 8 debit 0.02, class 5 credit 0.01, class 4 credit 0.01).  The
\* assets are 0.03 - 0.01 and the liabilities 0.01 + 0.01: the class-7
\* credit and the class-8 debit are in neither.
C16_Witness ==
    /\ Shows("report_balance_sheet")
    /\ Len(accounts) >= 8
    /\ Len(entries) = 2
    /\ entries[1].validated /\ Len(entries[1].lines) = 3
    /\ entries[1].lines[2] = [account_id |-> 4, debit |-> 0, credit |-> 20]
    /\ entries[2].validated
    /\ entries[2].lines[1] = [account_id |-> 5, debit |-> 20, credit |-> 0]
    /\ accounts[4].class_code = "7" /\ accounts[5].class_code = "8"
    /\ Included(entries[1]) /\ Included(entries[2])
    /\ last.page = [assets |-> 20, liabilities_equity |-> 20]

----------------------------------------------------------------------------
(* Claims on the life of an entry, on SpecLedger.                          *)

\* C17: an entry is stored with validated = false, and by entry_create; an
\* entry becomes validated in a step of entry_validate that changes that
\* entry's flag and nothing else, no other entry, no line, no counter; a
\* validated entry stays validated.
C17_ValidatedLifecycle ==
    [][/\ Len(entries') >= Len(entries)
       /\ \A i \in DOMAIN entries' \ DOMAIN entries :
             /\ ~entries'[i].validated
             /\ last'.op = "entry_create"
       /\ \A i \in DOMAIN entries :
             /\ entries[i].validated => entries'[i] = entries[i]
             /\ (~entries[i].validated /\ entries'[i].validated)
                   => /\ last'.op = "entry_validate"
                      /\ entries' = [entries EXCEPT ![i].validated = TRUE]
                      /\ journals' = journals
                      /\ numbering' = numbering
                      /\ invoices' = invoices]_vars

\* Two entries stored, the second validated by the last request and the
\* first still not validated.
C17_Witness ==
    /\ last.op = "entry_validate"
    /\ last.status = "validated"
    /\ Len(entries) = 2
    /\ ~entries[1].validated
    /\ entries[2].validated
    /\ entries[2].lines # <<>>
    /\ journals[1].next_number = 3

----------------------------------------------------------------------------
(* Claims on the references, on SpecSeq and SpecEntry.                     *)

\* The years of the model's dates, written out.
YearDigits == (2024 :> "2024") @@ (2025 :> "2025")

\* C18: the i-th call on a journal or Numbering row whose counter started at
\* 1 returns prefix, the year of the date passed (today's when none is),
\* a dash and i on four digits, whatever the years of the calls before it,
\* and the counter after N calls is N + 1: a change of year resets nothing.
C18_YearOfTheDateNoReset ==
    /\ \A i \in DOMAIN calls :
          calls[i].seq = (IF calls[i].scope = "ACH" THEN "ACH-" ELSE "INV-")
                         \o YearDigits[calls[i].year] \o "-" \o FourDigits[i]
    /\ (calls # <<>> /\ calls[1].scope = "ACH")
          => journals[1].next_number = Len(calls) + 1
    /\ (calls # <<>> /\ calls[1].scope = "invoice")
          => numbering["invoice"].next_number = Len(calls) + 1

\* Three calls dated 2024 on journal ACH and then one dated 2025: it returns
\* ACH-2025-0004 after ACH-2024-0003.
C18_Witness ==
    /\ Len(calls) = 4
    /\ calls[3].scope = "ACH"
    /\ calls[3].seq = "ACH-2024-0003"
    /\ calls[4].year = 2025
    /\ calls[4].seq = "ACH-2025-0004"
    /\ journals[1].next_number = 5

\* The part of C18 on entry_create: the reference of a stored entry carries
\* the year of its entry_date, not that of the day of the request.
C18_EntryCarriesYearOfItsDate ==
    \A i \in DOMAIN entries :
        \E n \in 1 .. MaxEntries :
            entries[i].reference =
                "ACH-" \o YearDigits[year(entries[i].entry_date)] \o "-" \o FourDigits[n]

\* A draft names an account and has a debit or a credit that is not zero.
Counts(d) ==
    /\ d.account # ""
    /\ AmountTable[d.debit] # 0 \/ AmountTable[d.credit] # 0

\* The drafts of a form that count, in submission order.
RECURSIVE Counting(_)
Counting(drafts) ==
    IF drafts = <<>> THEN <<>>
    ELSE (IF Counts(Head(drafts)) THEN <<Head(drafts)>> ELSE <<>>)
         \o Counting(Tail(drafts))

\* The line a draft that counts is stored as.
LineOf(d) ==
    [account_id |-> IntTable[d.account], debit |-> AmountTable[d.debit],
     credit |-> AmountTable[d.credit]]

\* The amounts of every draft that names an account are numbers, and the
\* account of every draft that counts is an id.
CountingConverts(drafts) ==
    \A i \in DOMAIN drafts :
        drafts[i].account # "" =>
            /\ drafts[i].debit \in DOMAIN AmountTable
            /\ drafts[i].credit \in DOMAIN AmountTable
            /\ Counts(drafts[i]) => drafts[i].account \in DOMAIN IntTable

\* C19: when the drafts convert, a form is accepted or turned down as
\* unbalanced on the totals of its counting drafts alone (the drafts without
\* account and those with debit and credit both zero raise no error and add
\* nothing), and the lines stored for an accepted entry are the counting
\* drafts, one line each, in submission order.
C19_StoredLinesAreCountingDrafts ==
    [][LET f == form[1]
           n == Len(entries)
           counting == Counting(f.drafts)
       IN  CountingConverts(f.drafts) =>
             /\ last'.status =
                   IF round_2(DraftDebits(counting), DraftCredits(counting)) = 0
                   THEN "created"
                   ELSE "unbalanced"
             /\ last'.status = "created" =>
                   /\ Len(entries') = n + 1
                   /\ Len(entries'[n + 1].lines) = Len(counting)
                   /\ \A i \in DOMAIN counting : entries'[n + 1].lines[i] = LineOf(counting[i])
      ]_vars

\* An accepted form of two drafts: the first, with debit and credit both
\* empty and an account field that is no id, is dropped; the second is the
\* one line stored.
C19_Witness ==
    /\ last.status = "created"
    /\ form[1].drafts = <<[account |-> "x", debit |-> "", credit |-> ""],
                          [account |-> "1", debit |-> "0.01", credit |-> "0.01"]>>
    /\ Len(entries) = 2
    /\ entries[2].lines = <<[account_id |-> 1, debit |-> 10, credit |-> 10]>>

----------------------------------------------------------------------------
(* Claims on the counter of a journal, on SpecLedger.                      *)

\* The ids of the stored entries of journal j.
EntriesOf(j) == {i \in DOMAIN entries : entries[i].journal_id = j}

\* C20: the counter of a journal is 1 + the number of its stored entries,
\* and the sequence numbers in the references of those entries are 1 .. k,
\* each carried by one entry.
C20_CounterCountsEntries ==
    \A j \in JournalIds :
        LET k == Cardinality(EntriesOf(j))
        IN  /\ journals[j].next_number = 1 + k
            /\ {ReferenceKey(entries[i].reference).n : i \in EntriesOf(j)} = 1 .. k
            /\ \A i \in EntriesOf(j) : ReferenceKey(entries[i].reference).j = j

\* Two entries stored on journal ACH, the first validated, and a third form
\* just turned down as unbalanced: it drew number 3 and the counter is 3.
C20_Witness ==
    /\ last = Outcome("entry_create", "unbalanced", "ACH", 3)
    /\ EntriesOf(1) = {1, 2}
    /\ entries[1].validated
    /\ journals[1].next_number = 3

----------------------------------------------------------------------------
(* SpecBooks: every request of the accounting application that reads or    *)
(* writes next to the stored entries, in any order.                        *)

\* What an export answers with, and what a step of it leaves: the rows
\* built so far, entry by entry.
Exported(status, code, page) ==
    [op |-> "journal_export", status |-> status, scope |-> code, number |-> 0,
     page |-> page]

\* GET /journals/<journal_id>/export.xlsx and export.pdf, the first query:
\* get_or_404 of the journal.
journal_export_get(c, journal_id) ==
    /\ Free(c)
    /\ IF journal_id \notin DOMAIN journals
       THEN /\ last' = Outcome("journal_export", "not_found", "", 0)
            /\ req' = [req EXCEPT ![c] = Idle]
       ELSE /\ last' = Exported("querying", journals[journal_id].code, <<>>)
            /\ req' = [req EXCEPT ![c] =
                          [phase |-> "export_found", journal_id |-> journal_id]]
    /\ UNCHANGED <<ledgerVars, calls, form, cabinetVars>>

\* journal.entries: the entries of the journal, validated or not, as the
\* table holds them when the loop starts; a journal without an entry is
\* exported with no row.
journal_export_entries(c) ==
    /\ req[c].phase = "export_found"
    /\ LET j == req[c].journal_id
           mine == SelectSeq([i \in DOMAIN entries |->
                                 [id |-> i, reference |-> entries[i].reference,
                                  entry_date |-> entries[i].entry_date]],
                             LAMBDA e : entries[e.id].journal_id = j)
       IN  IF mine = <<>>
           THEN /\ last' = Exported("rendered", journals[j].code, <<>>)
                /\ req' = [req EXCEPT ![c] = Idle]
           ELSE /\ last' = Exported("querying", journals[j].code, <<>>)
                /\ req' = [req EXCEPT ![c] =
                              [phase |-> "export_entry", journal_id |-> j,
                               todo |-> mine, page |-> <<>>]]
    /\ UNCHANGED <<ledgerVars, calls, form, cabinetVars>>

\* The export once the rows of the entry at the head of todo are built.
ExportNext(c, page) ==
    LET code == journals[req[c].journal_id].code
    IN  IF Tail(req[c].todo) = <<>>
        THEN /\ last' = Exported("rendered", code, page)
             /\ req' = [req EXCEPT ![c] = Idle]
        ELSE /\ last' = Exported("querying", code, page)
             /\ req' = [req EXCEPT ![c] =
                           [phase |-> "export_entry", journal_id |-> req[c].journal_id,
                            todo |-> Tail(req[c].todo), page |-> page]]

\* e.lines: the lines of the next entry; an entry without a line gives no
\* row.
journal_export_lines(c) ==
    /\ req[c].phase = "export_entry"
    /\ LET e == Head(req[c].todo)
           lines == entries[e.id].lines
       IN  IF lines = <<>>
           THEN ExportNext(c, Append(req[c].page, <<>>))
           ELSE /\ last' = Exported("querying", journals[req[c].journal_id].code,
                                    req[c].page)
                /\ req' = [req EXCEPT ![c] =
                              [phase |-> "export_line", journal_id |-> req[c].journal_id,
                               todo |-> req[c].todo, page |-> req[c].page,
                               lines |-> lines, rows |-> <<>>]]
    /\ UNCHANGED <<ledgerVars, calls, form, cabinetVars>>

\* l.account: the account of the next line, read by its id; l.account.code
\* raises on a line whose account id no account has.  An account the
\* session has read before comes from its identity map, which holds what the
\* table holds: no request changes or deletes an account.
journal_export_account(c) ==
    /\ req[c].phase = "export_line"
    /\ LET e == Head(req[c].todo)
           l == Head(req[c].lines)
       IN  IF l.account_id \notin AccountIds
           THEN /\ last' = Outcome("journal_export", "raised", "", 0)
                /\ req' = [req EXCEPT ![c] = Idle]
           ELSE LET rows == Append(req[c].rows,
                                   [reference |-> e.reference,
                                    date |-> isoformat(e.entry_date),
                                    code |-> accounts[l.account_id].code,
                                    debit |-> Numeric_14_2(l.debit),
                                    credit |-> Numeric_14_2(l.credit)])
                IN  IF Tail(req[c].lines) = <<>>
                    THEN ExportNext(c, Append(req[c].page, rows))
                    ELSE /\ last' = Exported("querying",
                                             journals[req[c].journal_id].code,
                                             req[c].page)
                         /\ req' = [req EXCEPT ![c] =
                                       [req[c] EXCEPT !.lines = Tail(@), !.rows = rows]]
    /\ UNCHANGED <<ledgerVars, calls, form, cabinetVars>>

\* A purchase paid from the bank; a line that balances itself; a debit of
\* 0.006 against a credit of 0.004; a form one hundredth short on the credit
\* side; a form with a debit alone; a form whose debit is not a number.
BookDraftLists ==
    {<<[account |-> "3", debit |-> "0.02", credit |-> ""],
       [account |-> "1", debit |-> "", credit |-> "0,02"]>>,
     <<[account |-> "1", debit |-> "0.01", credit |-> "0,01"]>>,
     <<[account |-> "1", debit |-> "0.006", credit |-> ""],
       [account |-> "2", debit |-> "", credit |-> "0.004"]>>,
     <<[account |-> "3", debit |-> "0.03", credit |-> ""],
       [account |-> "1", debit |-> "", credit |-> "0.02"]>>,
     <<[account |-> "1", debit |-> "0.03", credit |-> ""]>>,
     <<[account |-> "1", debit |-> "abc", credit |-> ""]>>}

\* The requests of client 1 for reports, exports and invoices are answered
\* query by query, and client 2 seeds the chart meanwhile.
NextBooks ==
    \/ seed_pcm_count(2, Given(ShortChartRows))
    \/ seed_pcm_commit(2)
    \/ \E l \in BookDraftLists : entry_create(1, Absent, l)
    \/ \E e \in EntryArgs : entry_validate(e)
    \/ \E j \in {1, 3} : journal_export_get(1, j)
    \/ journal_export_entries(1)
    \/ journal_export_lines(1)
    \/ journal_export_account(1)
    \/ report_trial_balance(Absent, Absent)
    \/ report_ledger_accounts(1, Absent, Given("2024-12-31"))
    \/ report_ledger_lines(1)
    \/ report_balance_sheet_assets(1, Given("2024-12-31"), Absent)
    \/ report_balance_sheet_liabilities(1)
    \/ report_income_statement_revenue(1, Absent, Absent)
    \/ report_income_statement_expenses(1)
    \/ invoice_create_query(1, FALSE, Absent)
    \/ numbering_insert(1)
    \/ numbering_refresh(1)
    \/ numbering_commit(1)
    \/ \E items \in ItemLists : invoice_insert(1, items)

SpecBooks == Init /\ [][NextBooks]_vars

\* The sum of one column of a stored entry's lines, taken line by line,
\* each amount as a query gives it back.
ColumnSum(lines, column) ==
    LET RECURSIVE upto(_)
        upto(n) == IF n = 0 THEN 0
                   ELSE upto(n - 1)
                        + Numeric_14_2(IF column = "debit" THEN lines[n].debit
                                       ELSE lines[n].credit)
    IN  upto(Len(lines))

\* The debits of a stored entry sum to its credits.
Balanced(e) == ColumnSum(e.lines, "debit") = ColumnSum(e.lines, "credit")

\* A step keeps the stored entries and their lines; it adds at most one
\* entry, and only as an accepted entry_create.
LinesKept ==
    /\ Len(entries') >= Len(entries)
    /\ \A i \in DOMAIN entries :
          /\ entries'[i].lines = entries[i].lines
          /\ entries'[i].reference = entries[i].reference
    /\ Len(entries') # Len(entries) =>
          /\ Len(entries') = Len(entries) + 1
          /\ last'.op = "entry_create"
          /\ last'.status = "created"

\* C21: in every reachable state the debits of every stored entry sum to
\* its credits, and no request (entry_validate, a report, an export,
\* invoice_create, a rejected entry_create) adds, removes or changes the
\* lines of a stored entry: entries appear one at a time, from an accepted
\* entry_create alone.
C21_StoredEntriesBalanced ==
    /\ [](\A i \in DOMAIN entries : Balanced(entries[i]))
    /\ [][LinesKept]_vars

\* The rest of C21 without the sums read back: entries appear one at a time
\* from an accepted entry_create, their lines and references never change,
\* and the amounts the table holds for an entry are those is_balanced
\* accepted.
C21_CheckedOnceAndKept ==
    /\ [](\A i \in DOMAIN entries : is_balanced(entries[i].lines))
    /\ [][LinesKept]_vars

\* The entry of a debit of 0.006 and a credit of 0.004 is stored and
\* validated, and the trial balance shows a debit of 0.01 on account 5141
\* and totals of 0.01 against 0.00.
C21_StoredUnbalanced ==
    /\ Shows("report_trial_balance")
    /\ Len(entries) = 1
    /\ entries[1].validated
    /\ entries[1].lines = <<[account_id |-> 1, debit |-> 6, credit |-> 0],
                            [account_id |-> 2, debit |-> 0, credit |-> 4]>>
    /\ ~Balanced(entries[1])
    /\ last.page.rows = <<[code |-> "4411", debit |-> 0, credit |-> 0, balance |-> 0],
                          [code |-> "5141", debit |-> 10, credit |-> 0, balance |-> 10]>>
    /\ last.page.totals = [debit |-> 10, credit |-> 0]

----------------------------------------------------------------------------
(* SpecInvoiceRace: invoice_create requests for invoices (one Numbering   *)
(* scope) served at the same time, each in its own session on the same    *)
(* database.                                                               *)

NextInvoiceRace ==
    \/ \E c \in Clients, d \in InvoiceDateFields :
          invoice_create_query(c, FALSE, d)
    \/ \E c \in Clients : numbering_insert(c)
    \/ \E c \in Clients : numbering_refresh(c)
    \/ \E c \in Clients : numbering_commit(c)
    \/ \E c \in Clients, items \in ItemLists : invoice_insert(c, items)

SpecInvoiceRace == Init /\ [][NextInvoiceRace]_vars

\* The request of client c was issued a number.
Issued(c) == req[c].phase \in {"numbered", "stored", "failed"} /\ req[c].number # ""

\* A step in which a request fails on the unique constraint leaves the
\* invoices and the counters as they were, the counter of its scope still
\* at the value its own commit or a later one wrote; a step in which a
\* request commits its counter leaves it one above the number issued.
CounterStaysAdvanced ==
    \A c \in Clients :
        /\ (req[c].phase = "numbered" /\ req'[c].phase = "failed")
              => /\ numbering' = numbering
                 /\ invoices' = invoices
                 /\ req'[c].status = "duplicate_key"
                       => \E i \in DOMAIN invoices : invoices[i].number = req[c].number
        /\ (req[c].phase = "held" /\ req'[c].phase = "numbered")
              => numbering'[req[c].scope].next_number = req'[c].drawn + 1

\* C22: under every interleaving of invoice_create requests no two stored
\* invoices carry the same number; of two requests issued the same number
\* at most one stored its invoice; and the request that fails on the unique
\* constraint leaves the counter, committed before, as it stands.
C22_NumbersStayUnique ==
    /\ [](/\ \A i, k \in DOMAIN invoices :
                i # k => invoices[i].number # invoices[k].number
          /\ \A c, e \in Clients :
                (c # e /\ Issued(c) /\ Issued(e) /\ req[c].number = req[e].number)
                => ~(req[c].phase = "stored" /\ req[e].phase = "stored"))
    /\ [][CounterStaysAdvanced]_vars

\* Two requests were issued INV-2024-0001; the first stored its invoice,
\* the second failed on the unique constraint, and the counter is at 2.
C22_Witness ==
    /\ req[1].phase = "stored"
    /\ req[2].phase = "failed"
    /\ req[2].status = "duplicate_key"
    /\ req[1].number = "INV-2024-0001"
    /\ req[2].number = "INV-2024-0001"
    /\ Len(invoices) = 1
    /\ invoices[1].number = "INV-2024-0001"
    /\ numbering["invoice"].next_number = 2

----------------------------------------------------------------------------
(* Claims on a cession of a party to itself and on the names of the        *)
(* associates, on SpecApply.                                               *)

\* C23: a call with parts > 0 whose cedant and cessionnaire are the same
\* name leaves one associate of that name, found in its place or appended
\* when there was none, holding max(old, parts): what it held when that was
\* at least parts, parts otherwise (old being 0 for a new name); every
\* other associate is as it was.
C23_SelfTransferKeepsMax ==
    [][(/\ form # Absent
        /\ form[1].parts > 0
        /\ form[1].cedant = form[1].cessionnaire)
       => LET old == ListOf(associates, 1)
              new == ListOf(associates', 1)
              name == form[1].cedant
              parts == form[1].parts
              had == Held(old, name)
          IN  /\ Held(new, name) = (IF had >= parts THEN had ELSE parts)
              /\ Cardinality({i \in DOMAIN new : new[i].name = name}) = 1
              /\ Len(new) = Len(old) + (IF name \in NamesOf(old) THEN 0 ELSE 1)
              /\ \A i \in DOMAIN old :
                    /\ new[i].name = old[i].name
                    /\ old[i].name # name => new[i] = old[i]
              /\ total_parts(new) - total_parts(old) =
                    (IF had >= parts THEN 0 ELSE parts - had)]_vars

\* A name holding 70 ceded 150 to itself, next to an associate holding 30:
\* it holds 150 and the societe has 80 parts more.
C23_Witness ==
    /\ Applied
    /\ form[1].parts = 150
    /\ form[1].cedant = form[1].cessionnaire
    /\ Held(last.before, form[1].cedant) = 70
    /\ Held(ListOf(associates, 1), form[1].cedant) = 150
    /\ \E n \in Names \ {form[1].cedant} :
          /\ Held(last.before, n) = 30
          /\ Held(ListOf(associates, 1), n) = 30
    /\ total_parts(ListOf(associates, 1)) = total_parts(last.before) + 80

----------------------------------------------------------------------------
(* SpecNames: apply_to_distribution called again and again on a societe    *)
(* that starts from any distribution of distinct names.                    *)

\* The distributions the calls start from: those of Distributions whose
\* associates hold 0 or 30 parts.
StartDistributions ==
    {d \in Distributions : \A i \in DOMAIN d : d[i].parts_count \in {0, 30}}

NamesCalls ==
    [societe : {1}, cedant : Names, cessionnaire : Names, parts : {0, 30}]

InitNames ==
    /\ InitLedger
    /\ cabinets = <<>>
    /\ societes = OneSociete
    /\ associates \in {Flushed(<<>>, 1, <<>>, d) : d \in StartDistributions}
    /\ cessions = <<>>
    /\ last = NoOutcome
    /\ calls = <<>>
    /\ req = <<>>
    /\ form = Absent

\* Cession.apply_to_distribution(societe, cedant, cessionnaire, parts), one
\* call after the other; `calls` keeps the calls made.
apply_next(call) ==
    /\ Len(calls) < MaxCessions
    /\ associates' =
           Flushed(associates, call.societe, AssociateIds(associates, call.societe),
                   apply_to_distribution(ListOf(associates, call.societe),
                                         call.cedant, call.cessionnaire, call.parts))
    /\ calls' = Append(calls, call)
    /\ last' = [op |-> "apply_to_distribution", status |-> "returned",
                before |-> ListOf(associates, call.societe)]
    /\ UNCHANGED <<ledgerVars, req, form, cabinets, societes, cessions>>

NextNames == \E call \in NamesCalls : apply_next(call)

SpecNames == InitNames /\ [][NextNames]_vars

DistinctNames(list) == \A i, j \in DOMAIN list : list[i].name = list[j].name => i = j

\* What one call does to the names: every associate stays in its place
\* under its name, the associates added are at most two, one for each of
\* the two names that had none (none when parts <= 0), and after a call
\* with parts > 0 both names have an associate.
NamesStep ==
    LET old == ListOf(associates, 1)
        new == ListOf(associates', 1)
        call == calls'[Len(calls')]
        absent == {call.cedant, call.cessionnaire} \ NamesOf(old)
        added == {i \in DOMAIN new : i > Len(old)}
    IN  /\ Len(new) >= Len(old)
        /\ \A i \in DOMAIN old : new[i].name = old[i].name
        /\ Cardinality(added) <= 2
        /\ Cardinality(added) = (IF call.parts > 0 THEN Cardinality(absent) ELSE 0)
        /\ \A i \in added : new[i].name \in absent
        /\ call.parts > 0 => {call.cedant, call.cessionnaire} \subseteq NamesOf(new)

\* C24: from a societe whose associates have pairwise distinct names, the
\* names are pairwise distinct after every sequence of apply_to_distribution
\* calls; each call adds at most two associates, only for names that had
\* none, removes none, and with parts > 0 leaves both the cedant's and the
\* cessionnaire's name present.
C24_NamesStayUnique ==
    /\ [](DistinctNames(ListOf(associates, 1)))
    /\ [][NamesStep]_vars

\* After two calls: the second, with parts > 0, named two parties that a
\* societe of one associate did not have, and the societe has three
\* associates of three names.
C24_Witness ==
    /\ Len(calls) = 2
    /\ calls[2].parts > 0
    /\ Len(last.before) = 1
    /\ Len(ListOf(associates, 1)) = 3
    /\ NamesOf(ListOf(associates, 1)) = Names
    /\ DistinctNames(ListOf(associates, 1))
    /\ calls[2].cedant \notin NamesOf(last.before)
    /\ calls[2].cessionnaire \notin NamesOf(last.before)

====
